---- MODULE Spec2Model ----
(***************************************************************************)
(* Verification model of the resume-tailor backend.                        *)
(*                                                                         *)
(*  - the ResumeTemplate collection and the handlers that write its        *)
(*    is_default flag (routers/resume.py, db/repository.py);               *)
(*  - generate_pdf_with_headless_chrome (resume_creator_chrome_pdf.py);    *)
(*  - the inline emphasis parsers _h_bold_markers                          *)
(*    (resume_template_renderer.py) and _escape_latex_with_bold_markers    *)
(*    (resume_creator_overleaf.py).                                        *)
(*                                                                         *)
(* Text is a sequence of one-character strings; Python indices are kept    *)
(* 0-based as in the source and shifted by one where a sequence is read.   *)
(***************************************************************************)
EXTENDS Integers, Sequences, FiniteSets, TLC

VARIABLES
    templates,          \* the resume_template collection: id (index) -> document
    started,            \* number of requests accepted so far
    pc,                 \* per request task: the database call it is about to await
    req,                \* per request task: the request being served
    existing_defaults,  \* per request task: local list `existing_defaults` still to unset
    doc,                \* per request task: local `doc` loaded by ResumeTemplate.get
    resp,               \* the last response sent
    c_pc,               \* generate_pdf_with_headless_chrome: position in the coroutine
    c_in,               \* its arguments (filename_hint, template margins, html)
    playwright,         \* async_playwright() context: "none" | "running" | "stopped"
    browser,            \* browser handle: "none" | "open" | "closed"
    fonts,              \* outcome of page.wait_for_function: "pending" | "loaded" | "timeout" | "error"
    pdf_bytes,          \* local pdf_bytes
    c_out,              \* what the call returned or raised
    segs,               \* how the input text was written (plain pieces and marked spans)
    text,               \* the text handed to the emphasis parsers
    h_res,              \* result of _h_bold_markers(text)
    l_res,              \* result of _escape_latex_with_bold_markers(text)
    hint,               \* the text a download filename is built from
    f_pdf,              \* result of _safe_filename(hint, ext=".pdf")
    f_tex,              \* filename returned by generate_latex_from_resume_structured
    prof,               \* the ResumeStructured record handed to a renderer
    blocks,             \* the template's blocks list (block types, in order)
    r_html,             \* result of render_resume_html(prof, blocks)
    r_latex,            \* result of render_latex_with_template(prof, blocks)
    r_pdf,              \* result of _resume_to_flowables(prof)
    primary_color,      \* theme.primary_color handed to the envelope builders
    css_res,            \* the color tokens _css(theme) writes into the style block
    tex_res,            \* the color render_latex_with_template defines in its preamble
    calls,              \* the assembler calls made so far: arguments, arguments after the call, result
    token,              \* the bearer token of the request being authenticated
    auth_resume,        \* what require_auth of the resume router did with the token
    auth_cover,         \* what require_auth of the cover-letter router did with the token
    pdf_path,           \* the pdf_path query parameter of the request
    resolved,           \* what _safe_resolve_pdf_path of the resume router did
    main_resolved,      \* what _safe_resolve_pdf_path of main.py did
    users,              \* the user collection: user id -> document, or NoUser
    tailored,           \* the tailored_resume collection: id (index) -> document
    built,              \* the built_resume collection: id (index) -> document
    letters,            \* the tailored_cover_letter collection: id (index) -> document
    api_resp            \* the response to the request served last

tvars == <<templates, started, pc, req, existing_defaults, doc, resp>>
cvars == <<c_pc, c_in, playwright, browser, fonts, pdf_bytes, c_out>>
pvars == <<segs, text, h_res, l_res>>
fvars == <<hint, f_pdf, f_tex>>
rvars == <<prof, blocks, r_html, r_latex, r_pdf>>
colorvars == <<primary_color, css_res, tex_res>>
callvars == <<calls>>
authvars == <<token, auth_resume, auth_cover>>
pathvars == <<pdf_path, resolved, main_resolved>>
apivars == <<users, tailored, built, letters, api_resp>>
xvars == <<colorvars, callvars, authvars, pathvars, apivars>>
vars == <<templates, started, pc, req, existing_defaults, doc, resp,
          c_pc, c_in, playwright, browser, fonts, pdf_bytes, c_out,
          segs, text, h_res, l_res, hint, f_pdf, f_tex,
          prof, blocks, r_html, r_latex, r_pdf,
          primary_color,
          css_res,
          tex_res,
          calls,
          token,
          auth_resume,
          auth_cover,
          pdf_path,
          resolved,
          main_resolved,
          users,
          tailored,
          built,
          letters,
          api_resp>>

\* ------------------------------------------------------------------------
\* Bounds
\* ------------------------------------------------------------------------
NumTasks == 2
MaxRequests == 3
MaxSegs == 3

Tasks == 1..NumTasks
TemplateIds == 1..MaxRequests

\* ------------------------------------------------------------------------
\* ResumeTemplate collection
\* ------------------------------------------------------------------------

\* A ResumeTemplate document. Of its fields only is_default is read by a
\* handler; name, version, theme and blocks are copied from the request and
\* never branched on, and are left out.
ResumeTemplate(d) == [is_default |-> d]

\* An in-memory copy of a stored document (what find / get hand back).
Loaded(id) == [id |-> id, is_default |-> templates[id].is_default]

NoDoc == [id |-> 0, is_default |-> FALSE]
NoRequest == [op |-> "none", is_default |-> FALSE, template_id |-> 0]

\* ResumeTemplate.find(ResumeTemplate.is_default == True): ids of matching documents.
\* (variant: a filter that matches nothing)
FindDefaults_NoneFound(coll) == {}
FindDefaults(coll) == {id \in DOMAIN coll : coll[id].is_default}

RECURSIVE SetToSeq(_)
SetToSeq(S) ==
    IF S = {} THEN <<>>
    ELSE LET m == CHOOSE x \in S : \A y \in S : x <= y
         IN <<m>> \o SetToSeq(S \ {m})

\* .to_list(): the matching documents as local copies, in collection order.
ToList(ids) == LET q == SetToSeq(ids) IN [k \in 1..Len(q) |-> Loaded(q[k])]

\* d.save() / doc.save(): the local copy replaces the stored document.
Save(coll, id, d) == [coll EXCEPT ![id] = ResumeTemplate(d)]

\* doc.insert(): a fresh id is appended to the collection.
Insert(coll, d) == Append(coll, ResumeTemplate(d))

\* update_resume_template: `if str(d.id) == str(doc.id): continue`
OthersOf(lst, id) == SelectSeq(lst, LAMBDA d : d.id # id)

\* update_resume_template: doc.is_default = req.is_default
UpdatedFlag(stored, requested) == requested

Idle(p) == pc[p] = "idle"
AllIdle == \A p \in Tasks : Idle(p)

\* The handler returns (or raises HTTPException): the response goes out and the
\* coroutine's locals are gone.
Respond(p, status, id, flag) ==
    /\ resp' = [op |-> req[p].op, status |-> status, id |-> id, is_default |-> flag]
    /\ pc' = [pc EXCEPT ![p] = "idle"]
    /\ req' = [req EXCEPT ![p] = NoRequest]
    /\ existing_defaults' = [existing_defaults EXCEPT ![p] = <<>>]
    /\ doc' = [doc EXCEPT ![p] = NoDoc]

\* The handler goes on to its next awaited call.
Goto(p, next) ==
    /\ pc' = [pc EXCEPT ![p] = next]
    /\ UNCHANGED <<req, resp>>

NoResponse == [op |-> "none", status |-> 0, id |-> 0, is_default |-> FALSE]

Ops == {"create", "update", "duplicate", "ensure_default", "get_default"}

FirstCall(op, is_default) ==
    CASE op = "create" -> IF is_default THEN "create_find" ELSE "create_insert"
      [] op = "update" -> "update_get"
      [] op = "duplicate" -> "duplicate_get"
      [] op = "ensure_default" -> "ensure_find"
      [] op = "get_default" -> "get_default_find"

\* A request arrives at an idle task and runs to its first database call.
Begin(p) ==
    /\ Idle(p)
    /\ started < MaxRequests
    /\ \E op \in Ops, d \in BOOLEAN, id \in TemplateIds :
        /\ req' = [req EXCEPT ![p] = [op |-> op, is_default |-> d, template_id |-> id]]
        /\ pc' = [pc EXCEPT ![p] = FirstCall(op, d)]
    /\ started' = started + 1
    /\ UNCHANGED <<templates, existing_defaults, doc, resp, cvars, pvars, fvars, rvars, xvars>>

\* Requests served one after the other: a request starts only when no other is in flight.
BeginAlone(p) == AllIdle /\ Begin(p)

\* create_resume_template: existing_defaults = await ResumeTemplate.find(...).to_list()
CreateFind(p) ==
    /\ pc[p] = "create_find"
    /\ LET lst == ToList(FindDefaults(templates)) IN
        /\ existing_defaults' = [existing_defaults EXCEPT ![p] = lst]
        /\ Goto(p, IF Len(lst) = 0 THEN "create_insert" ELSE "create_unset")
    /\ UNCHANGED <<templates, started, doc, cvars, pvars, fvars, rvars, xvars>>

\* create_resume_template: d.is_default = False; await d.save()
CreateUnset(p) ==
    /\ pc[p] = "create_unset"
    /\ templates' = Save(templates, Head(existing_defaults[p]).id, FALSE)
    /\ existing_defaults' = [existing_defaults EXCEPT ![p] = Tail(@)]
    /\ Goto(p, IF Len(existing_defaults[p]) = 1 THEN "create_insert" ELSE "create_unset")
    /\ UNCHANGED <<started, doc, cvars, pvars, fvars, rvars, xvars>>

\* create_resume_template: await doc.insert(); return the response
CreateInsert(p) ==
    /\ pc[p] = "create_insert"
    /\ templates' = Insert(templates, req[p].is_default)
    /\ Respond(p, 200, Len(templates) + 1, req[p].is_default)
    /\ UNCHANGED <<started, cvars, pvars, fvars, rvars, xvars>>

\* update_resume_template: doc = await ResumeTemplate.get(template_id); 404 when missing
UpdateGet(p) ==
    /\ pc[p] = "update_get"
    /\ IF req[p].template_id \in DOMAIN templates
       THEN /\ doc' = [doc EXCEPT ![p] = Loaded(req[p].template_id)]
            /\ Goto(p, IF req[p].is_default THEN "update_find" ELSE "update_save")
            /\ UNCHANGED existing_defaults
       ELSE Respond(p, 404, 0, FALSE)
    /\ UNCHANGED <<templates, started, cvars, pvars, fvars, rvars, xvars>>

\* update_resume_template: existing_defaults = await ResumeTemplate.find(...).to_list();
\* the loop skips the document being updated
UpdateFind(p) ==
    /\ pc[p] = "update_find"
    /\ LET lst == OthersOf(ToList(FindDefaults(templates)), doc[p].id) IN
        /\ existing_defaults' = [existing_defaults EXCEPT ![p] = lst]
        /\ Goto(p, IF Len(lst) = 0 THEN "update_save" ELSE "update_unset")
    /\ UNCHANGED <<templates, started, doc, cvars, pvars, fvars, rvars, xvars>>

\* update_resume_template: d.is_default = False; await d.save()
UpdateUnset(p) ==
    /\ pc[p] = "update_unset"
    /\ templates' = Save(templates, Head(existing_defaults[p]).id, FALSE)
    /\ existing_defaults' = [existing_defaults EXCEPT ![p] = Tail(@)]
    /\ Goto(p, IF Len(existing_defaults[p]) = 1 THEN "update_save" ELSE "update_unset")
    /\ UNCHANGED <<started, doc, cvars, pvars, fvars, rvars, xvars>>

\* update_resume_template: doc.<fields> = req.<fields>; await doc.save()
UpdateSave(p) ==
    /\ pc[p] = "update_save"
    /\ LET flag == UpdatedFlag(doc[p].is_default, req[p].is_default) IN
        /\ templates' = Save(templates, doc[p].id, flag)
        /\ Respond(p, 200, doc[p].id, flag)
    /\ UNCHANGED <<started, cvars, pvars, fvars, rvars, xvars>>

\* duplicate_resume_template: doc = await ResumeTemplate.get(template_id); 404 when missing
DuplicateGet(p) ==
    /\ pc[p] = "duplicate_get"
    /\ IF req[p].template_id \in DOMAIN templates
       THEN /\ doc' = [doc EXCEPT ![p] = Loaded(req[p].template_id)]
            /\ Goto(p, "duplicate_insert")
            /\ UNCHANGED existing_defaults
       ELSE Respond(p, 404, 0, FALSE)
    /\ UNCHANGED <<templates, started, cvars, pvars, fvars, rvars, xvars>>

\* duplicate_resume_template: copy = ResumeTemplate(..., is_default=False); await copy.insert()
DuplicateInsert(p) ==
    /\ pc[p] = "duplicate_insert"
    /\ templates' = Insert(templates, FALSE)
    /\ Respond(p, 200, Len(templates) + 1, FALSE)
    /\ UNCHANGED <<started, cvars, pvars, fvars, rvars, xvars>>

\* get_default_resume_template: tpl = await find_one(is_default == True); falls
\* through to ensure_default_resume_template when there is none. find_one
\* returns any one matching document.
GetDefaultFind(p) ==
    /\ pc[p] = "get_default_find"
    /\ IF FindDefaults(templates) # {}
       THEN \E id \in FindDefaults(templates) : Respond(p, 200, id, templates[id].is_default)
       ELSE /\ Goto(p, "ensure_find")
            /\ UNCHANGED <<existing_defaults, doc>>
    /\ UNCHANGED <<templates, started, cvars, pvars, fvars, rvars, xvars>>

\* ensure_default_resume_template: existing = await find_one(is_default == True)
EnsureFind(p) ==
    /\ pc[p] = "ensure_find"
    /\ IF FindDefaults(templates) # {}
       THEN \E id \in FindDefaults(templates) : Respond(p, 200, id, templates[id].is_default)
       ELSE /\ Goto(p, "ensure_insert")
            /\ UNCHANGED <<existing_defaults, doc>>
    /\ UNCHANGED <<templates, started, cvars, pvars, fvars, rvars, xvars>>

\* ensure_default_resume_template: tpl = ResumeTemplate(is_default=True, ...); await tpl.insert()
EnsureInsert(p) ==
    /\ pc[p] = "ensure_insert"
    /\ templates' = Insert(templates, TRUE)
    /\ Respond(p, 200, Len(templates) + 1, TRUE)
    /\ UNCHANGED <<started, cvars, pvars, fvars, rvars, xvars>>

\* ------------------------------------------------------------------------
\* Text helpers (Python str semantics on sequences of characters)
\* ------------------------------------------------------------------------

\* s[a:b] for 0 <= a <= b <= len(s)
Slice(s, a, b) == SubSeq(s, a + 1, b)

\* s.find(sub, start): lowest 0-based index >= start where sub occurs, else -1
Find(s, sub, start) ==
    LET hits == {k \in start..(Len(s) - Len(sub)) : Slice(s, k, k + Len(sub)) = sub}
    IN IF hits = {} THEN -1 ELSE CHOOSE k \in hits : \A j \in hits : k <= j

\* s.replace(old, new): every non-overlapping occurrence, scanning left to right
RECURSIVE Replace(_, _, _)
Replace(s, old, new) ==
    LET k == Find(s, old, 0)
    IN IF k = -1 THEN s
       ELSE Slice(s, 0, k) \o new \o Replace(Slice(s, k + Len(old), Len(s)), old, new)

Whitespace == {" ", "\t", "\n"}

RECURSIVE LStrip(_, _)
LStrip(s, cs) == IF s # <<>> /\ Head(s) \in cs THEN LStrip(Tail(s), cs) ELSE s

RECURSIVE RStrip(_, _)
RStrip(s, cs) == IF s # <<>> /\ s[Len(s)] \in cs THEN RStrip(Slice(s, 0, Len(s) - 1), cs) ELSE s

\* s.strip() and s.strip(chars)
StripChars(s, cs) == RStrip(LStrip(s, cs), cs)
Strip(s) == StripChars(s, Whitespace)

\* "".join(parts)
RECURSIVE Join(_)
Join(parts) == IF parts = <<>> THEN <<>> ELSE Head(parts) \o Join(Tail(parts))

\* ------------------------------------------------------------------------
\* Filename sanitizer (resume_creator_pdf.py)
\* ------------------------------------------------------------------------
Upper == {"A","B","C","D","E","F","G","H","I","J","K","L","M",
          "N","O","P","Q","R","S","T","U","V","W","X","Y","Z"}
Lower == {"a","b","c","d","e","f","g","h","i","j","k","l","m",
          "n","o","p","q","r","s","t","u","v","w","x","y","z"}
Digits == {"0","1","2","3","4","5","6","7","8","9"}
StemChars == Upper \cup Lower \cup Digits \cup {"-", "_"}
AsciiChars == StemChars \cup Whitespace \cup {"!", ".", "&", "~", "\\", "{", "}", "<", ">"}

\* unicodedata.normalize("NFKD", v) on the non-ASCII characters the model uses:
\* an accented letter splits into its base letter and a combining mark; the em
\* dash has no decomposition.
NFKD1(c) ==
    CASE c = "e_acute" -> <<"e", "combining_acute">>
      [] c = "A_acute" -> <<"A", "combining_acute">>
      [] OTHER -> <<c>>

RECURSIVE NFKD(_)
NFKD(v) == IF v = <<>> THEN <<>> ELSE NFKD1(Head(v)) \o NFKD(Tail(v))

\* v.encode("ascii", "ignore").decode("ascii")
AsciiIgnore(v) == SelectSeq(v, LAMBDA c : c \in AsciiChars)

\* re.sub(r"[^A-Za-z0-9\-_]+", "", v)
KeepStemChars_KeepAll(v) == v
KeepStemChars(v) == SelectSeq(v, LAMBDA c : c \in StemChars)

\* re.sub(r"-{2,}", "-", v)
RECURSIVE CollapseHyphens(_)
CollapseHyphens(v) ==
    IF Len(v) < 2 THEN v
    ELSE IF v[1] = "-" /\ v[2] = "-" THEN CollapseHyphens(Tail(v))
    ELSE <<Head(v)>> \o CollapseHyphens(Tail(v))

safe_ascii_stem(v) ==
    LET v0 == Strip(v) IN
    IF v0 = <<>> THEN <<>>
    ELSE LET v1 == AsciiIgnore(NFKD(v0))
             v2 == Replace(v1, <<" ">>, <<"-">>)
             v3 == KeepStemChars(v2)
         IN StripChars(CollapseHyphens(v3), {"-", "_"})

MaxStemLen == 50

safe_filename(v, ext) ==
    LET s0 == safe_ascii_stem(v)
        stem == IF s0 = <<>> THEN <<"r","e","s","u","m","e">> ELSE s0
        e == IF ext # <<>> /\ Head(ext) = "." THEN ext ELSE <<".">> \o ext
    IN Slice(stem, 0, IF Len(stem) < MaxStemLen THEN Len(stem) ELSE MaxStemLen) \o e

Str_resume == <<"r","e","s","u","m","e">>
Str_pdf == <<".","p","d","f">>

\* The copy of _safe_ascii_stem in resume_creator_overleaf.py
overleaf_safe_ascii_stem(v) ==
    LET v0 == Strip(v) IN
    IF v0 = <<>> THEN <<>>
    ELSE LET v1 == AsciiIgnore(NFKD(v0))
             v2 == Replace(v1, <<" ">>, <<"-">>)
             v3 == KeepStemChars(v2)
         IN StripChars(CollapseHyphens(v3), {"-", "_"})

Str_tex_txt == <<".","t","e","x",".","t","x","t">>

\* generate_latex_from_resume_structured: safe = _safe_ascii_stem(filename_hint)
\* or "resume"; filename = f"{safe[:50]}.tex.txt"
latex_filename(filename_hint) ==
    LET s0 == overleaf_safe_ascii_stem(filename_hint)
        safe == IF s0 = <<>> THEN <<"r","e","s","u","m","e">> ELSE s0
    IN Slice(safe, 0, IF Len(safe) < MaxStemLen THEN Len(safe) ELSE MaxStemLen) \o Str_tex_txt

\* Texts a filename is built from (a document title, a person's name): a run
\* of letters followed by a few characters of every class the sanitizer
\* treats differently. The run is empty or as long as the stem limit, so that
\* the limit cuts the text at each of its last positions.
MaxHintLen == 3
HintChars == {"b", "-", "_", " ", "\t", "e_acute", "!"}
HintTails == UNION { [1..n -> HintChars] : n \in 0..MaxHintLen }
HintPads == {0, MaxStemLen - 1, MaxStemLen}
Rep(c, n) == [k \in 1..n |-> c]
FileHints == { Rep("a", n) \o t : n \in HintPads, t \in HintTails } \ { <<>> }

\* an export endpoint calls _safe_filename(hint, ext=".pdf")
SafeFilename ==
    /\ f_pdf.state = "pending"
    /\ f_pdf' = [state |-> "done", filename |-> safe_filename(hint, Str_pdf)]
    /\ UNCHANGED <<hint, f_tex, tvars, cvars, pvars, rvars, xvars>>

\* an export endpoint calls generate_latex_from_resume_structured(filename_hint=hint)
LatexFilename ==
    /\ f_tex.state = "pending"
    /\ f_tex' = [state |-> "done", filename |-> latex_filename(hint)]
    /\ UNCHANGED <<hint, f_pdf, tvars, cvars, pvars, rvars, xvars>>

\* ------------------------------------------------------------------------
\* generate_pdf_with_headless_chrome (resume_creator_chrome_pdf.py)
\* ------------------------------------------------------------------------

\* filename_hint values handed in by the export endpoints
Hints == { Str_resume,
           <<" ", "-", " ">>,
           <<"m","y"," ","c","v">>,
           <<"J","o","s","e_acute"," ","em_dash"," ","C","V","!","!">>,
           <<"_","a","-","-","b","_"," ">> }

\* template.theme page margins (top, right, bottom, left), in mm
Margins == { <<5, 1, 5, 1>>, <<10, 10, 10, 10>> }

\* html_doc = render_resume_html(...): the document handed to the page
HtmlDocs == {"html_a", "html_b"}

\* An exception raised inside `async with async_playwright() as p:` leaves the
\* block through the context manager's exit and propagates to the caller.
\* browser.close() is not on that path.
RaiseInside(at) ==
    /\ c_pc' = "raised"
    /\ playwright' = "stopped"
    /\ c_out' = [kind |-> "raised", at |-> at]

\* `except Exception: pass` around page.wait_for_function
\* (variant: the exception is not swallowed)
FontsExcept_Reraise(outcome) == IF outcome = "loaded" THEN "pdf" ELSE "abort"
FontsExcept(outcome) == "pdf"

\* page.pdf(format="A4", ..., margin={...}): the printed document
PagePdf(html_doc, margin, fontState) ==
    [format |-> "A4", html_doc |-> html_doc, margin |-> margin,
     typeface |-> IF fontState = "loaded" THEN "webfont" ELSE "system"]

\* from playwright.async_api import async_playwright
Import ==
    /\ c_pc = "import"
    /\ \/ /\ c_pc' = "enter"
          /\ UNCHANGED c_out
       \/ /\ c_pc' = "raised"
          /\ c_out' = [kind |-> "raised", at |-> "import"]
    /\ UNCHANGED <<c_in, playwright, browser, fonts, pdf_bytes, tvars, pvars, fvars, rvars, xvars>>

\* async with async_playwright() as p:
EnterPlaywright ==
    /\ c_pc = "enter"
    /\ \/ /\ c_pc' = "launch"
          /\ playwright' = "running"
          /\ UNCHANGED c_out
       \/ /\ c_pc' = "raised"
          /\ c_out' = [kind |-> "raised", at |-> "enter"]
          /\ UNCHANGED playwright
    /\ UNCHANGED <<c_in, browser, fonts, pdf_bytes, tvars, pvars, fvars, rvars, xvars>>

\* browser = await p.chromium.launch(headless=True, args=["--no-sandbox"])
Launch ==
    /\ c_pc = "launch"
    /\ \/ /\ c_pc' = "new_page"
          /\ browser' = "open"
          /\ UNCHANGED <<playwright, c_out>>
       \/ /\ RaiseInside("launch")
          /\ UNCHANGED browser
    /\ UNCHANGED <<c_in, fonts, pdf_bytes, tvars, pvars, fvars, rvars, xvars>>

\* page = await browser.new_page(viewport=...)
NewPage ==
    /\ c_pc = "new_page"
    /\ \/ /\ c_pc' = "set_content"
          /\ UNCHANGED <<playwright, c_out>>
       \/ RaiseInside("new_page")
    /\ UNCHANGED <<c_in, browser, fonts, pdf_bytes, tvars, pvars, fvars, rvars, xvars>>

\* await page.set_content(html_doc, wait_until="networkidle")
SetContent ==
    /\ c_pc = "set_content"
    /\ \/ /\ c_pc' = "emulate_media"
          /\ UNCHANGED <<playwright, c_out>>
       \/ RaiseInside("set_content")
    /\ UNCHANGED <<c_in, browser, fonts, pdf_bytes, tvars, pvars, fvars, rvars, xvars>>

\* await page.emulate_media(media="print")
EmulateMedia ==
    /\ c_pc = "emulate_media"
    /\ \/ /\ c_pc' = "wait_fonts"
          /\ UNCHANGED <<playwright, c_out>>
       \/ RaiseInside("emulate_media")
    /\ UNCHANGED <<c_in, browser, fonts, pdf_bytes, tvars, pvars, fvars, rvars, xvars>>

\* try: await page.wait_for_function("document.fonts ...", timeout=5000)
\* except Exception: pass
WaitFonts ==
    /\ c_pc = "wait_fonts"
    /\ \E outcome \in {"loaded", "timeout", "error"} :
        /\ fonts' = outcome
        /\ IF FontsExcept(outcome) = "pdf"
           THEN /\ c_pc' = "pdf"
                /\ UNCHANGED <<playwright, c_out>>
           ELSE RaiseInside("wait_fonts")
    /\ UNCHANGED <<c_in, browser, pdf_bytes, tvars, pvars, fvars, rvars, xvars>>

\* pdf_bytes = await page.pdf(...)
Pdf ==
    /\ c_pc = "pdf"
    /\ \/ /\ c_pc' = "close"
          /\ pdf_bytes' = PagePdf(c_in.html_doc, c_in.margin, fonts)
          /\ UNCHANGED <<playwright, c_out>>
       \/ /\ RaiseInside("pdf")
          /\ UNCHANGED pdf_bytes
    /\ UNCHANGED <<c_in, browser, fonts, tvars, pvars, fvars, rvars, xvars>>

\* await browser.close()
Close ==
    /\ c_pc = "close"
    /\ \/ /\ c_pc' = "exit"
          /\ browser' = "closed"
          /\ UNCHANGED <<playwright, c_out>>
       \/ /\ RaiseInside("close")
          /\ UNCHANGED browser
    /\ UNCHANGED <<c_in, fonts, pdf_bytes, tvars, pvars, fvars, rvars, xvars>>

\* end of the async with block; filename = _safe_filename(filename_hint, ext=".pdf");
\* return pdf_bytes, filename
ExitAndReturn ==
    /\ c_pc = "exit"
    /\ playwright' = "stopped"
    /\ c_pc' = "returned"
    /\ c_out' = [kind |-> "returned", pdf_bytes |-> pdf_bytes,
                 filename |-> safe_filename(c_in.filename_hint, Str_pdf)]
    /\ UNCHANGED <<c_in, browser, fonts, pdf_bytes, tvars, pvars, fvars, rvars, xvars>>

\* ------------------------------------------------------------------------
\* Inline emphasis markup: \b ... b\
\* ------------------------------------------------------------------------
OPEN == <<"\\", "b">>
CLOSE == <<"b", "\\">>
OPEN2 == <<"\\", "\\", "b">>
CLOSE2 == <<"b", "\\", "\\">>

Str_amp == <<"&","a","m","p",";">>
Str_lt == <<"&","l","t",";">>
Str_gt == <<"&","g","t",";">>
Str_quot == <<"&","q","u","o","t",";">>
Str_apos == <<"&","#","x","2","7",";">>
Str_strong == <<"<","s","t","r","o","n","g",">">>
Str_strong_end == <<"<","/","s","t","r","o","n","g",">">>
Str_textbf == <<"\\","t","e","x","t","b","f","{">>
Str_tilde == <<"\\","t","e","x","t","a","s","c","i","i","t","i","l","d","e","{","}">>
Str_circum == <<"\\","t","e","x","t","a","s","c","i","i","c","i","r","c","u","m","{","}">>

\* html.escape(s): & first, then < > " '
html_escape(s) ==
    Replace(Replace(Replace(Replace(Replace(s,
        <<"&">>, Str_amp), <<"<">>, Str_lt), <<">">>, Str_gt), <<"\"">>, Str_quot), <<"'">>, Str_apos)

\* _escape_latex(s): the replacements dict applied in its insertion order
escape_latex(s) ==
    Replace(Replace(Replace(Replace(Replace(Replace(Replace(Replace(Replace(s,
        <<"&">>, <<"\\","&">>), <<"%">>, <<"\\","%">>), <<"$">>, <<"\\","$">>),
        <<"#">>, <<"\\","#">>), <<"_">>, <<"\\","_">>), <<"{">>, <<"\\","{">>),
        <<"}">>, <<"\\","}">>), <<"~">>, Str_tilde), <<"^">>, Str_circum)

\* A scan in progress: the list `out` of rendered pieces, and beside it a record
\* of what each piece was cut from (spans: the raw slice and whether it was
\* taken as bold), the number of loop iterations, and the index of the open
\* token for which no close token was found (-1 when the scan met none).
NoPieces == [out |-> <<>>, spans |-> <<>>, iters |-> 0, unterminated_at |-> -1]

Emit(acc, piece, bold, raw) ==
    [acc EXCEPT !.out = Append(@, piece),
                !.spans = Append(@, [bold |-> bold, text |-> raw])]

\* ---- HTML back end: _h_bold_markers (resume_template_renderer.py) ----

\* s = (v or "").replace("\\\\b", "\\b").replace("b\\\\", "b\\")
h_normalize(v) == Replace(Replace(v, OPEN2, OPEN), CLOSE2, CLOSE)

\* inner_start = open_at + len(OPEN)
h_inner_start(open_at) == open_at + Len(OPEN)

\* i = close_at + len(CLOSE)
\* (variant: resumes inside the close token)
h_resume_at_ShortBy1(close_at) == close_at + 1
h_resume_at(close_at) == close_at + Len(CLOSE)

\* out.append(html.escape(s[open_at:])) when no close token follows
\* (variant: the dangling token itself is left out)
h_unterminated_DropToken(s, open_at) == html_escape(Slice(s, open_at + Len(OPEN), Len(s)))
h_unterminated(s, open_at) == html_escape(Slice(s, open_at, Len(s)))

\* out.append(f"<strong>{html.escape(inner)}</strong>")
h_strong(inner) == Str_strong \o html_escape(inner) \o Str_strong_end

\* the while loop of _h_bold_markers, from index i
RECURSIVE h_scan(_, _, _)
h_scan(s, i, acc) ==
    IF ~(i < Len(s)) THEN acc
    ELSE
      LET a0 == [acc EXCEPT !.iters = @ + 1]
          open_at == Find(s, OPEN, i)
      IN IF open_at = -1
         THEN Emit(a0, html_escape(Slice(s, i, Len(s))), FALSE, Slice(s, i, Len(s)))
         ELSE
           LET a1 == IF open_at > i
                     THEN Emit(a0, html_escape(Slice(s, i, open_at)), FALSE, Slice(s, i, open_at))
                     ELSE a0
               inner_start == h_inner_start(open_at)
               close_at == Find(s, CLOSE, inner_start)
           IN IF close_at = -1
              THEN [Emit(a1, h_unterminated(s, open_at), FALSE, Slice(s, open_at, Len(s)))
                        EXCEPT !.unterminated_at = open_at]
              ELSE
                LET inner == Slice(s, inner_start, close_at)
                IN h_scan(s, h_resume_at(close_at), Emit(a1, h_strong(inner), TRUE, inner))

\* _h_bold_markers(v): return "".join(out).strip()
h_bold_markers(v) ==
    LET s == h_normalize(v)
        r == h_scan(s, 0, NoPieces)
    IN [state |-> "done", s |-> s, out |-> r.out, spans |-> r.spans, iters |-> r.iters,
        unterminated_at |-> r.unterminated_at, value |-> Strip(Join(r.out))]

\* ---- LaTeX back end: _escape_latex_with_bold_markers (resume_creator_overleaf.py) ----

\* raw = (s or "").replace("\\\\b", "\\b").replace("b\\\\", "b\\")
l_normalize(v) == Replace(Replace(v, OPEN2, OPEN), CLOSE2, CLOSE)

\* inner_start = open_at + len(OPEN)
\* (variant: the close token is searched from inside the open token)
l_inner_start_AtOpen(open_at) == open_at + 1
l_inner_start(open_at) == open_at + Len(OPEN)

\* i = close_at + len(CLOSE)
\* (variant: the scan resumes on the last character of the close token)
l_resume_at_ShortBy1(close_at) == close_at + Len(CLOSE) - 1
l_resume_at(close_at) == close_at + Len(CLOSE)

\* out.append(_escape_latex(raw[open_at:])) when no close token follows
l_unterminated(raw, open_at) == escape_latex(Slice(raw, open_at, Len(raw)))

\* out.append(r"\textbf{" + _escape_latex(inner) + "}")
l_textbf(inner) == Str_textbf \o escape_latex(inner) \o <<"}">>

\* the while loop of _escape_latex_with_bold_markers, from index i
RECURSIVE l_scan(_, _, _)
l_scan(raw, i, acc) ==
    IF ~(i < Len(raw)) THEN acc
    ELSE
      LET a0 == [acc EXCEPT !.iters = @ + 1]
          open_at == Find(raw, OPEN, i)
      IN IF open_at = -1
         THEN Emit(a0, escape_latex(Slice(raw, i, Len(raw))), FALSE, Slice(raw, i, Len(raw)))
         ELSE
           LET a1 == IF open_at > i
                     THEN Emit(a0, escape_latex(Slice(raw, i, open_at)), FALSE, Slice(raw, i, open_at))
                     ELSE a0
               inner_start == l_inner_start(open_at)
               close_at == Find(raw, CLOSE, inner_start)
           IN IF close_at = -1
              THEN [Emit(a1, l_unterminated(raw, open_at), FALSE, Slice(raw, open_at, Len(raw)))
                        EXCEPT !.unterminated_at = open_at]
              ELSE
                LET inner == Slice(raw, inner_start, close_at)
                IN l_scan(raw, l_resume_at(close_at), Emit(a1, l_textbf(inner), TRUE, inner))

\* _escape_latex_with_bold_markers(s): return "".join(out)
escape_latex_with_bold_markers(v) ==
    LET raw == l_normalize(v)
        r == l_scan(raw, 0, NoPieces)
    IN [state |-> "done", s |-> raw, out |-> r.out, spans |-> r.spans, iters |-> r.iters,
        unterminated_at |-> r.unterminated_at, value |-> Join(r.out)]

\* ---- inputs ----

\* Pieces a text field is written from: nothing, a letter, a backslash, a
\* blank, the tokens themselves, and characters the back ends escape (& is
\* escaped by both, ~ by LaTeX alone).
SegTexts == { <<>>, <<"b">>, <<"\\">>, <<"&">>, <<"~">>, <<" ">>, OPEN, CLOSE }
Segs == [bold : BOOLEAN, text : SegTexts]
SegSeqs == UNION { [1..n -> Segs] : n \in 0..MaxSegs }

\* A segment as typed with single-backslash tokens, and with doubled ones
WriteSeg(g) == IF g.bold THEN OPEN \o g.text \o CLOSE ELSE g.text
WriteSeg2(g) == IF g.bold THEN OPEN2 \o g.text \o CLOSE2 ELSE g.text

Written(gs) == Join([k \in 1..Len(gs) |-> WriteSeg(gs[k])])
WrittenDoubled(gs) == Join([k \in 1..Len(gs) |-> WriteSeg2(gs[k])])

Pending == [state |-> "pending"]

\* a renderer calls _h_bold_markers(text)
HtmlBold ==
    /\ h_res.state = "pending"
    /\ h_res' = h_bold_markers(text)
    /\ UNCHANGED <<segs, text, l_res, tvars, cvars, fvars, rvars, xvars>>

\* a renderer calls _escape_latex_with_bold_markers(text)
LatexBold ==
    /\ l_res.state = "pending"
    /\ l_res' = escape_latex_with_bold_markers(text)
    /\ UNCHANGED <<segs, text, h_res, tvars, cvars, fvars, rvars, xvars>>

\* ------------------------------------------------------------------------
\* ResumeStructured (models/schemas_resume.py)
\* ------------------------------------------------------------------------

\* Python's None for an Optional[str] field; no text equals it
None == <<"None">>

\* Contact(): every field defaults to None
NoContact == [phone |-> None, email |-> None, linkedin |-> None,
              github |-> None, location |-> None]

\* ResumeStructured(): Optional fields default to None, lists to []
NoProf == [name |-> None, title |-> None, contact |-> NoContact,
           professional_summary |-> None, education |-> <<>>,
           experience |-> <<>>, projects |-> <<>>, skills |-> <<>>]

\* ------------------------------------------------------------------------
\* Block renderers, HTML back end (resume_template_renderer.py)
\*
\* A fragment is a sequence whose elements are the characters of the text
\* taken from the record and, as one element each, the literal pieces of
\* markup the renderer writes around them.
\* ------------------------------------------------------------------------

\* `v or ""` and the truth value of an Optional[str]
Or(v) == IF v = None THEN <<>> ELSE v
Truthy(v) == v # None /\ v # <<>>

\* [x.strip() for x in (xs or []) if (x or "").strip()]
StrippedItems(xs) == LET kept == SelectSeq(xs, LAMBDA x : Strip(Or(x)) # <<>>)
                     IN [k \in 1..Len(kept) |-> Strip(kept[k])]

\* sep.join(parts)
RECURSIVE JoinWith(_, _)
JoinWith(sep, parts) ==
    IF parts = <<>> THEN <<>>
    ELSE IF Len(parts) = 1 THEN parts[1]
    ELSE parts[1] \o sep \o JoinWith(sep, Tail(parts))

\* s.lower() and s.startswith(prefix)
UpperSeq == <<"A","B","C","D","E","F","G","H","I","J","K","L","M",
              "N","O","P","Q","R","S","T","U","V","W","X","Y","Z">>
LowerSeq == <<"a","b","c","d","e","f","g","h","i","j","k","l","m",
              "n","o","p","q","r","s","t","u","v","w","x","y","z">>
lower(s) == [k \in 1..Len(s) |->
                IF s[k] \in Upper THEN LowerSeq[CHOOSE j \in 1..Len(UpperSeq) : UpperSeq[j] = s[k]]
                ELSE s[k]]
startswith(s, prefix) == Len(s) >= Len(prefix) /\ Slice(s, 0, Len(prefix)) = prefix

Str_http == <<"h","t","t","p",":","/","/">>
Str_https == <<"h","t","t","p","s",":","/","/">>
Str_comma == <<",", " ">>
Str_middot == <<" ", "middle_dot", " ">>
Str_br == <<"<br/>">>
NL == <<"\n">>

\* _h(v) = html.escape((v or "").strip())
h(v) == html_escape(Strip(Or(v)))

\* _h(v).replace("\\n", "<br/>") inside an f-string field: the pattern is the
\* two characters backslash and n, not a line break
h_lines(v) == Replace(h(v), <<"\\", "n">>, Str_br)

\* _join_date(start, end)
h_join_date_AlwaysDash(start, end) == Strip(Or(start)) \o <<" ", "en_dash", " ">> \o Strip(Or(end))
h_join_date(start, end) ==
    LET s == Strip(Or(start))
        e == Strip(Or(end))
    IN IF s = <<>> /\ e = <<>> THEN <<>>
       ELSE IF s # <<>> /\ e # <<>> THEN s \o <<" ", "en_dash", " ">> \o e
       ELSE IF s # <<>> THEN s ELSE e

\* the loop of _contact_items: de-dupe by label
RECURSIVE h_dedupe(_, _, _)
h_dedupe(items, seen, out) ==
    IF items = <<>> THEN out
    ELSE LET lab == Strip(Or(Head(items).label))
         IN IF lab = <<>> \/ lab \in seen THEN h_dedupe(Tail(items), seen, out)
            ELSE h_dedupe(Tail(items), seen \cup {lab},
                          Append(out, [kind |-> Head(items).kind, label |-> lab]))

ContactItem(kind, label) == IF Truthy(label) THEN <<[kind |-> kind, label |-> label]>> ELSE <<>>

\* _contact_items(prof)
h_contact_items(p) ==
    LET c == p.contact
        items == ContactItem("email", c.email) \o ContactItem("phone", c.phone)
                 \o ContactItem("location", c.location)
                 \o ContactItem("linkedin", c.linkedin) \o ContactItem("github", c.github)
    IN h_dedupe(items, {}, <<>>)

\* _fa_icon(kind)
fa_icon(kind) ==
    CASE kind = "email" -> <<"<i class=\"fa-solid fa-envelope\" aria-hidden=\"true\"></i>">>
      [] kind = "phone" -> <<"<i class=\"fa-solid fa-phone\" aria-hidden=\"true\"></i>">>
      [] kind = "location" -> <<"<i class=\"fa-solid fa-location-dot\" aria-hidden=\"true\"></i>">>
      [] kind = "linkedin" -> <<"<i class=\"fa-brands fa-linkedin-in\" aria-hidden=\"true\"></i>">>
      [] kind = "github" -> <<"<i class=\"fa-brands fa-github\" aria-hidden=\"true\"></i>">>
      [] OTHER -> <<>>

\* _normalize_http_url(v)
h_normalize_http_url(v) ==
    LET s == Strip(Or(v))
    IN IF s = <<>> THEN <<>>
       ELSE IF startswith(lower(s), Str_http) \/ startswith(lower(s), Str_https) THEN s
       ELSE Str_https \o s

\* _section(title, inner)
h_section(title, inner) ==
    IF Strip(inner) = <<>> THEN <<>>
    ELSE <<"<section class=\"rp__section\">">> \o NL
         \o <<" ", " ", "<div class=\"rp__sectionHead\"><div class=\"rp__sectionTitle\">">>
         \o h(title) \o <<"</div></div>">> \o NL
         \o <<" ", " ">> \o inner \o NL
         \o <<"</section>">>

\* one entry of `items` in _render_header
h_contact_item(contact, idx) ==
    LET kind == contact[idx].kind
        label == contact[idx].label
        sep == IF idx # Len(contact)
               THEN <<"<span class=\"rp__contactSep\" aria-hidden=\"true\">|</span>">> ELSE <<>>
        href == h_normalize_http_url(label)
        link_text == IF kind = "linkedin" THEN <<"LinkedIn">> ELSE <<"GitHub">>
        text_html == IF kind \in {"linkedin", "github"} /\ href # <<>>
                     THEN <<"<a class=\"rp__contactLink\" href=\"">> \o h(href) \o <<"\">">>
                          \o h(link_text) \o <<"</a>">>
                     ELSE <<"<span class=\"rp__contactText\">">> \o h(label) \o <<"</span>">>
    IN <<"<span class=\"rp__contactItem\">">> \o NL
       \o <<" ", " ", "<span class=\"rp__contactIcon\">">> \o fa_icon(kind) \o <<"</span>">> \o NL
       \o <<" ", " ">> \o text_html \o NL
       \o <<" ", " ">> \o sep \o NL
       \o <<"</span>">>

\* _render_header(prof, block)
h_render_header(p) ==
    LET contact == h_contact_items(p)
        contact_html == IF contact = <<>> THEN <<>>
                        ELSE <<"<div class=\"rp__contact\" aria-label=\"Contact details\">">>
                             \o Join([k \in 1..Len(contact) |-> h_contact_item(contact, k)])
                             \o <<"</div>">>
        main == IF h(p.name) # <<>> THEN h(p.name) ELSE <<"em_dash">>
        sub == IF Truthy(p.title)
               THEN <<"<div class=\"rp__headerSub\">">> \o h(p.title) \o <<"</div>">> ELSE <<>>
    IN <<"<header class=\"rp__header\">">> \o NL
       \o <<" ", " ", "<div class=\"rp__headerBlock\">">> \o NL
       \o <<" ", " ", " ", " ", "<div class=\"rp__headerMain\">">> \o main \o <<"</div>">> \o NL
       \o <<" ", " ", " ", " ">> \o sub \o NL
       \o <<" ", " ", " ", " ">> \o contact_html \o NL
       \o <<" ", " ", "</div>">> \o NL
       \o <<"</header>">>

\* _render_summary(prof, block)
h_render_summary(p) ==
    IF ~Truthy(p.professional_summary) THEN <<>>
    ELSE h_section(<<"Summary">>,
                   <<"<div class=\"rp__text\">">> \o h_lines(p.professional_summary) \o <<"</div>">>)

\* one pass of the loop of _render_skills: the row of a group, or nothing
h_skill_row(grp) ==
    LET skills == StrippedItems(grp.skills)
        cat == IF Truthy(grp.category) THEN h(grp.category) ELSE <<>>
        cat_html == IF cat # <<>>
                    THEN <<"<span class=\"rp__skillCat\">">> \o cat \o <<":</span> ">> ELSE <<>>
    IN IF skills = <<>> /\ Strip(Or(grp.category)) = <<>> THEN <<>>
       ELSE <<"<div class=\"rp__skillLine\">">> \o cat_html \o <<"<span class=\"rp__skillItems\">">>
            \o h(JoinWith(Str_comma, skills)) \o <<"</span></div>">>

\* _render_skills(prof, block)
h_render_skills(p) ==
    LET rows == Join([k \in 1..Len(p.skills) |-> h_skill_row(p.skills[k])])
    IN IF p.skills = <<>> \/ rows = <<>> THEN <<>>
       ELSE h_section(<<"Skills">>, <<"<div class=\"rp__skillsBlock\">">> \o rows \o <<"</div>">>)

\* one entry of `items` in _render_experience
h_experience_item(e) ==
    LET company == IF h(e.company) # <<>> THEN h(e.company) ELSE <<"em_dash">>
        addr == IF Truthy(e.company_address) THEN h(e.company_address) ELSE <<>>
        dates == h(h_join_date(e.start_date, e.end_date))
        summary_html == IF Truthy(e.summary)
                        THEN <<"<div class=\"rp__text\">">> \o h_lines(e.summary) \o <<"</div>">>
                        ELSE <<>>
        resp_list == StrippedItems(e.responsibilities)
        lis == Join([k \in 1..Len(resp_list) |-> <<"<li>">> \o h_bold_markers(resp_list[k]).value \o <<"</li>">>])
        resp_html == IF resp_list # <<>> THEN <<"<ul class=\"rp__list\">">> \o lis \o <<"</ul>">> ELSE <<>>
    IN <<"<div class=\"rp__item\">">> \o NL
       \o <<" ", " ", "<div class=\"rp__row\">">> \o NL
       \o <<" ", " ", " ", " ", "<div class=\"rp__company\">">> \o company \o <<"</div>">> \o NL
       \o <<" ", " ", " ", " ">>
       \o (IF addr # <<>> THEN <<"<div class=\"rp__addr\">">> \o addr \o <<"</div>">> ELSE <<>>) \o NL
       \o <<" ", " ", "</div>">> \o NL
       \o <<" ", " ", "<div class=\"rp__row rp__rowSub\">">> \o NL
       \o <<" ", " ", " ", " ", "<div class=\"rp__role\">">> \o h(e.title) \o <<"</div>">> \o NL
       \o <<" ", " ", " ", " ">>
       \o (IF dates # <<>> THEN <<"<div class=\"rp__dates\">">> \o dates \o <<"</div>">> ELSE <<>>) \o NL
       \o <<" ", " ", "</div>">> \o NL
       \o <<" ", " ">> \o summary_html \o NL
       \o <<" ", " ">> \o resp_html \o NL
       \o <<"</div>">>

\* _render_experience(prof, block)
h_render_experience(p) ==
    IF p.experience = <<>> THEN <<>>
    ELSE h_section(<<"Experience">>,
                   <<"<div class=\"rp__stack\">">>
                   \o Join([k \in 1..Len(p.experience) |-> h_experience_item(p.experience[k])])
                   \o <<"</div>">>)

\* the degree and field of study that are not blank, joined by a middle dot
DegreeField(parts) == JoinWith(Str_middot, SelectSeq(parts, LAMBDA x : Strip(Or(x)) # <<>>))

\* one entry of `items` in _render_education
h_education_item(e) ==
    LET inst == IF h(e.institution) # <<>> THEN h(e.institution) ELSE <<"em_dash">>
        dates == h(h_join_date(e.start_date, e.end_date))
        field_h == h(DegreeField(<<e.degree, e.field_of_study>>))
        loc == IF Truthy(e.location) THEN h(e.location) ELSE <<>>
        notes_html == IF Truthy(e.notes)
                      THEN <<"<div class=\"rp__text\">">> \o h_lines(e.notes) \o <<"</div>">>
                      ELSE <<>>
    IN <<"<div class=\"rp__item\">">> \o NL
       \o <<" ", " ", "<div class=\"rp__row\">">> \o NL
       \o <<" ", " ", " ", " ", "<div class=\"rp__school\">">> \o inst \o <<"</div>">> \o NL
       \o <<" ", " ", " ", " ">>
       \o (IF dates # <<>> THEN <<"<div class=\"rp__dates\">">> \o dates \o <<"</div>">> ELSE <<>>) \o NL
       \o <<" ", " ", "</div>">> \o NL
       \o <<" ", " ", "<div class=\"rp__row rp__rowSub\">">> \o NL
       \o <<" ", " ", " ", " ", "<div class=\"rp__field\">">> \o field_h \o <<"</div>">> \o NL
       \o <<" ", " ", " ", " ">>
       \o (IF loc # <<>> THEN <<"<div class=\"rp__loc\">">> \o loc \o <<"</div>">> ELSE <<>>) \o NL
       \o <<" ", " ", "</div>">> \o NL
       \o <<" ", " ">> \o notes_html \o NL
       \o <<"</div>">>

\* _render_education(prof, block)
h_render_education(p) ==
    IF p.education = <<>> THEN <<>>
    ELSE h_section(<<"Education">>,
                   <<"<div class=\"rp__stack\">">>
                   \o Join([k \in 1..Len(p.education) |-> h_education_item(p.education[k])])
                   \o <<"</div>">>)

\* one entry of `items` in _render_projects. ProjectItem declares `link` and
\* neither `github` nor `demo`, so getattr(p, "github", None) and
\* getattr(p, "demo", None) give None.
h_project_item(p) ==
    LET name == IF h(p.name) # <<>> THEN h(p.name) ELSE <<"em_dash">>
        desc_html == IF Truthy(p.description)
                     THEN <<"<div class=\"rp__text\">">> \o h_lines(p.description) \o <<"</div>">>
                     ELSE <<>>
        tech == StrippedItems(p.technologies)
        tech_html == IF tech # <<>>
                     THEN <<"<div class=\"rp__text\"><span class=\"rp__muted\">Tech:</span> ">>
                          \o h(JoinWith(Str_comma, tech)) \o <<"</div>">>
                     ELSE <<>>
        github == Strip(Or(None))
        demo == Strip(IF Or(None) # <<>> THEN Or(None) ELSE Or(p.link))
        links == (IF github # <<>> THEN <<[label |-> <<"GitHub">>, href |-> github]>> ELSE <<>>)
                 \o (IF demo # <<>> THEN <<[label |-> <<"Demo">>, href |-> demo]>> ELSE <<>>)
        parts == [k \in 1..Len(links) |->
                    <<"<a class=\"rp__link\" href=\"">> \o h(links[k].href) \o <<"\">">>
                    \o h(links[k].label) \o <<"</a>">>
                    \o (IF k # Len(links) THEN <<"<span class=\"rp__linkSep\"> | </span>">> ELSE <<>>)]
        links_html == IF links # <<>>
                      THEN <<"<div class=\"rp__projLinks\">">> \o Join(parts) \o <<"</div>">>
                      ELSE <<>>
    IN <<"<div class=\"rp__item\">">> \o NL
       \o <<" ", " ", "<div class=\"rp__company\">">> \o name \o <<"</div>">> \o NL
       \o <<" ", " ">> \o desc_html \o NL
       \o <<" ", " ">> \o tech_html \o NL
       \o <<" ", " ">> \o links_html \o NL
       \o <<"</div>">>

\* _render_projects(prof, block)
h_render_projects(p) ==
    IF p.projects = <<>> THEN <<>>
    ELSE h_section(<<"Projects">>,
                   <<"<div class=\"rp__stack\">">>
                   \o Join([k \in 1..Len(p.projects) |-> h_project_item(p.projects[k])])
                   \o <<"</div>">>)

\* ------------------------------------------------------------------------
\* Block renderers, LaTeX back end (render_latex_with_template in
\* resume_creator_overleaf.py)
\* ------------------------------------------------------------------------
Str_bar == <<" ", "$|$", " ">>
Str_newline == <<" ", "\\\\", " ">>

\* _escape_latex(v).replace("\n", r" \\ ")
l_lines(v) == Replace(escape_latex(Or(v)), NL, Str_newline)

\* _join_date(start, end)
l_join_date(start, end) ==
    LET s == Strip(Or(start))
        e == Strip(Or(end))
    IN IF s = <<>> /\ e = <<>> THEN <<>>
       ELSE IF s # <<>> /\ e # <<>> THEN s \o <<" ", "en_dash", " ">> \o e
       ELSE IF s # <<>> THEN s ELSE e

\* _normalize_http_url(v)
l_normalize_http_url(v) ==
    LET s == Strip(Or(v))
    IN IF s = <<>> THEN <<>>
       ELSE IF startswith(lower(s), Str_http) \/ startswith(lower(s), Str_https) THEN s
       ELSE Str_https \o s

\* section(title, inner)
section(title, inner) ==
    IF Strip(Or(inner)) = <<>> THEN <<>>
    ELSE <<"\\SectionHeader{">> \o escape_latex(title) \o <<"}">> \o NL \o Strip(Or(inner)) \o NL

\* render_header()
render_header(p) ==
    LET name == escape_latex(Or(p.name))
        title == escape_latex(Or(p.title))
        c == p.contact
        link(v, label) == <<"\\href{">> \o escape_latex(l_normalize_http_url(v))
                          \o <<"}{\\uline{", label, "}}">>
        parts == (IF Truthy(c.email) THEN <<escape_latex(c.email)>> ELSE <<>>)
                 \o (IF Truthy(c.phone) THEN <<escape_latex(c.phone)>> ELSE <<>>)
                 \o (IF Truthy(c.location) THEN <<escape_latex(c.location)>> ELSE <<>>)
                 \o (IF Truthy(c.linkedin) THEN <<link(c.linkedin, "LinkedIn")>> ELSE <<>>)
                 \o (IF Truthy(c.github) THEN <<link(c.github, "GitHub")>> ELSE <<>>)
        contact == JoinWith(Str_bar, parts)
        out == (IF name # <<>>
                THEN << <<"\\begin{center}", "\\textbf{\\fontsize{20pt}{22pt}\\selectfont ">>
                        \o name \o <<"}", "\\end{center}">> >> ELSE <<>>)
               \o (IF title # <<>>
                   THEN << <<"\\begin{center}", "\\textcolor{black!70}{\\RPSubTitle{">>
                           \o title \o <<"}}", "\\end{center}">> >> ELSE <<>>)
               \o (IF contact # <<>>
                   THEN << <<"\\begin{center}", "\\textcolor{Primary}{\\RPContact{">>
                           \o contact \o <<"}}", "\\end{center}">> >> ELSE <<>>)
    IN JoinWith(NL, out) \o NL

\* render_summary()
render_summary(p) ==
    IF Strip(Or(p.professional_summary)) = <<>> THEN <<>>
    ELSE section(<<"Summary">>, <<"\\RPText{">> \o l_lines(p.professional_summary) \o <<"}">>)

\* one pass of the loop of render_skills: the line of a group, or nothing
l_skill_line(grp) ==
    LET items == StrippedItems(grp.skills)
        cat == escape_latex(Or(grp.category))
        items_txt == escape_latex(JoinWith(Str_comma, items))
    IN IF items = <<>> THEN <<>>
       ELSE IF cat # <<>>
            THEN << <<"\\RPSkillCat{">> \o cat \o <<":} \\RPSkillItems{">> \o items_txt \o <<"}">> >>
            ELSE << <<"\\RPSkillItems{">> \o items_txt \o <<"}">> >>

\* render_skills()
render_skills(p) ==
    LET lines == Join([k \in 1..Len(p.skills) |-> l_skill_line(p.skills[k])])
    IN IF p.skills = <<>> \/ lines = <<>> THEN <<>>
       ELSE section(<<"Skills">>, JoinWith(Str_newline, lines))

\* the chunks one experience entry adds in render_experience
l_experience_chunks(e) ==
    LET company == escape_latex(IF Truthy(e.company) THEN e.company ELSE <<"em_dash">>)
        addr == escape_latex(Or(e.company_address))
        role == escape_latex(Or(e.title))
        dates == escape_latex(l_join_date(e.start_date, e.end_date))
        summary == l_lines(e.summary)
        resp_list == StrippedItems(e.responsibilities)
    IN << <<"\\begin{tabularx}{\\linewidth}{X r}", "\\RPCompany{">> \o company
          \o <<"} & \\RPAddr{">> \o addr \o <<"} \\\\", "\\end{tabularx}">>,
          <<"\\begin{tabularx}{\\linewidth}{X r}", "\\RPRole{">> \o role
          \o <<"} & \\RPDates{">> \o dates \o <<"} \\\\", "\\end{tabularx}">> >>
       \o (IF summary # <<>> THEN << <<"\\RPText{">> \o summary \o <<"}">> >> ELSE <<>>)
       \o (IF resp_list # <<>>
           THEN << <<"\\begin{itemize}">> >>
                \o [k \in 1..Len(resp_list) |->
                       <<"\\item \\RPListText{">>
                       \o escape_latex_with_bold_markers(resp_list[k]).value \o <<"}">>]
                \o << <<"\\end{itemize}">> >>
           ELSE <<>>)
       \o << <<"\\vspace{6pt}">> >>

\* render_experience()
render_experience(p) ==
    IF p.experience = <<>> THEN <<>>
    ELSE section(<<"Experience">>,
                 JoinWith(NL, Join([k \in 1..Len(p.experience) |-> l_experience_chunks(p.experience[k])])))

\* the chunks one education entry adds in render_education
l_education_chunks(e) ==
    LET inst == escape_latex(IF Truthy(e.institution) THEN e.institution ELSE <<"em_dash">>)
        dates == escape_latex(l_join_date(e.start_date, e.end_date))
        field_h == escape_latex(DegreeField(<<e.degree, e.field_of_study>>))
        loc == escape_latex(Or(e.location))
        notes == l_lines(e.notes)
    IN << <<"\\begin{tabularx}{\\linewidth}{X r}", "\\RPCompany{">> \o inst
          \o <<"} & \\RPDates{">> \o dates \o <<"} \\\\", "\\end{tabularx}">>,
          <<"\\begin{tabularx}{\\linewidth}{X r}", "\\RPRole{">> \o field_h
          \o <<"} & \\RPAddr{">> \o loc \o <<"} \\\\", "\\end{tabularx}">> >>
       \o (IF notes # <<>> THEN << <<"\\RPText{">> \o notes \o <<"}">> >> ELSE <<>>)
       \o << <<"\\vspace{6pt}">> >>

\* render_education()
render_education(p) ==
    IF p.education = <<>> THEN <<>>
    ELSE section(<<"Education">>,
                 JoinWith(NL, Join([k \in 1..Len(p.education) |-> l_education_chunks(p.education[k])])))

\* the chunks one project adds in render_projects (github and demo as in
\* h_project_item)
l_project_chunks(p) ==
    LET name == escape_latex(IF Truthy(p.name) THEN p.name ELSE <<"em_dash">>)
        desc == l_lines(p.description)
        tech == StrippedItems(p.technologies)
        github == Strip(Or(None))
        demo == Strip(IF Or(None) # <<>> THEN Or(None) ELSE Or(p.link))
        link_bits == (IF github # <<>>
                      THEN << <<"\\href{">> \o escape_latex(l_normalize_http_url(github))
                              \o <<"}{\\textcolor{Primary}{GitHub}}">> >> ELSE <<>>)
                     \o (IF demo # <<>>
                         THEN << <<"\\href{">> \o escape_latex(l_normalize_http_url(demo))
                                 \o <<"}{\\textcolor{Primary}{Demo}}">> >> ELSE <<>>)
    IN << <<"\\RPCompany{">> \o name \o <<"}">> >>
       \o (IF desc # <<>> THEN << <<"\\RPText{">> \o desc \o <<"}">> >> ELSE <<>>)
       \o (IF tech # <<>>
           THEN << <<"\\RPText{\\textcolor{black!60}{Tech:} ">>
                   \o escape_latex(JoinWith(Str_comma, tech)) \o <<"}">> >> ELSE <<>>)
       \o (IF link_bits # <<>>
           THEN << <<"\\RPText{">> \o JoinWith(Str_bar, link_bits) \o <<"}">> >> ELSE <<>>)
       \o << <<"\\vspace{6pt}">> >>

\* render_projects()
render_projects(p) ==
    IF p.projects = <<>> THEN <<>>
    ELSE section(<<"Projects">>,
                 JoinWith(NL, Join([k \in 1..Len(p.projects) |-> l_project_chunks(p.projects[k])])))

\* ------------------------------------------------------------------------
\* Vector PDF back end (resume_creator_pdf.py)
\* ------------------------------------------------------------------------

\* _s(v)
p_s(v) == Strip(Or(v))

\* _join_date(start, end)
p_join_date(start, end) ==
    LET s == p_s(start)
        e == p_s(end)
    IN IF s = <<>> /\ e = <<>> THEN <<>>
       ELSE IF s # <<>> /\ e # <<>> THEN s \o <<" ", "en_dash", " ">> \o e
       ELSE IF s # <<>> THEN s ELSE e

\* the closure `add` of _contact_items, applied to the fields in order
RECURSIVE p_add_all(_, _, _, _)
p_add_all(fields, seen_kind, seen_label, items) ==
    IF fields = <<>> THEN items
    ELSE LET kind == Head(fields).kind
             lab == p_s(Head(fields).label)
         IN IF lab = <<>> \/ kind \in seen_kind \/ lab \in seen_label
            THEN p_add_all(Tail(fields), seen_kind, seen_label, items)
            ELSE p_add_all(Tail(fields), seen_kind \cup {kind}, seen_label \cup {lab},
                           Append(items, [kind |-> kind, label |-> lab]))

\* _contact_items(c)
p_contact_items(c) ==
    p_add_all(<<[kind |-> "email", label |-> c.email], [kind |-> "phone", label |-> c.phone],
                [kind |-> "location", label |-> c.location],
                [kind |-> "linkedin", label |-> c.linkedin],
                [kind |-> "github", label |-> c.github]>>, {}, {}, <<>>)

\* Flowables: a Paragraph with its markup and style, a Table with its cells,
\* a SectionHeader with its title, a Spacer, and the ResumeHeader with the
\* strings its draw() places (name, subtitle, contact labels).
Paragraph(markup, style) == [kind |-> "Paragraph", markup |-> markup, style |-> style]
Spacer(height) == [kind |-> "Spacer", height |-> height]
SectionHeader(title) == [kind |-> "SectionHeader", title |-> title]
Table(cells) == [kind |-> "Table", cells |-> cells]
ResumeHeader(p) ==
    [kind |-> "ResumeHeader",
     name |-> IF p_s(p.name) # <<>> THEN p_s(p.name) ELSE <<"em_dash">>,
     title |-> p_s(p.title),
     items |-> p_contact_items(p.contact)]

\* the flowables one experience entry adds in _resume_to_flowables
p_experience_parts(e) ==
    LET company == Paragraph(IF p_s(e.company) # <<>> THEN p_s(e.company) ELSE <<"em_dash">>, "bold")
        role == Paragraph(p_s(e.title), "sub_bold")
        date_str == p_join_date(e.start_date, e.end_date)
        date_cell == Paragraph(date_str, "dates")
        bullets == JoinWith(Str_br, [k \in 1..Len(StrippedItems(e.responsibilities)) |->
                                        <<"bullet", " ">> \o StrippedItems(e.responsibilities)[k]])
    IN <<Table(<<company, <<>> >>), Spacer(2), Table(<<role, date_cell>>)>>
       \o (IF p_s(e.summary) # <<>> THEN <<Paragraph(Replace(e.summary, NL, Str_br), "body")>> ELSE <<>>)
       \o (IF e.responsibilities # <<>> /\ bullets # <<>> THEN <<Paragraph(bullets, "body")>> ELSE <<>>)
       \o <<Spacer(10)>>

\* the flowables one education entry adds
p_education_parts(ed) ==
    LET institution == Paragraph(IF p_s(ed.institution) # <<>> THEN p_s(ed.institution)
                                 ELSE <<"em_dash">>, "bold")
        date_str == p_join_date(ed.start_date, ed.end_date)
        date_cell == Paragraph(date_str, "dates")
        degree_field == JoinWith(Str_middot,
                                 SelectSeq(<<p_s(ed.degree), p_s(ed.field_of_study)>>, LAMBDA x : x # <<>>))
        field == Paragraph(degree_field, "sub_bold")
        loc == Paragraph(p_s(ed.location), "dates")
    IN <<Table(<<institution, date_cell>>), Spacer(2), Table(<<field, loc>>)>>
       \o (IF p_s(ed.notes) # <<>> THEN <<Paragraph(Replace(ed.notes, NL, Str_br), "body")>> ELSE <<>>)
       \o <<Spacer(10)>>

\* _esc_rl(s)
p_esc_rl(s) == Strip(Replace(Replace(Replace(Or(s), <<"&">>, Str_amp), <<"<">>, Str_lt), <<">">>, Str_gt))

\* the flowable one skill group adds, or nothing
p_skill_parts(group) ==
    LET category == p_s(group.category)
        skills_text == JoinWith(Str_comma, SelectSeq(group.skills, LAMBDA x : p_s(x) # <<>>))
    IN IF group.skills = <<>> THEN <<>>
       ELSE IF category # <<>>
            THEN <<Paragraph(<<"<b>">> \o category \o <<":</b> ">> \o skills_text, "body_small")>>
            ELSE <<Paragraph(skills_text, "body_small")>>

\* the flowables one project adds (github and demo as in h_project_item)
p_project_parts(p) ==
    LET name == Paragraph(IF p_s(p.name) # <<>> THEN p_s(p.name) ELSE <<"em_dash">>, "bold")
        tech == JoinWith(Str_comma, SelectSeq(p.technologies, LAMBDA x : p_s(x) # <<>>))
        github == p_s(None)
        demo == p_s(IF Or(None) # <<>> THEN None ELSE p.link)
        link_bits == (IF github # <<>>
                      THEN << <<"<link href=\"">> \o p_esc_rl(github) \o <<"\">GitHub</link>">> >>
                      ELSE <<>>)
                     \o (IF demo # <<>>
                         THEN << <<"<link href=\"">> \o p_esc_rl(demo) \o <<"\">Demo</link>">> >>
                         ELSE <<>>)
    IN <<name>>
       \o (IF p_s(p.description) # <<>>
           THEN <<Paragraph(Replace(p.description, NL, Str_br), "body")>> ELSE <<>>)
       \o (IF p.technologies # <<>> /\ tech # <<>>
           THEN <<Paragraph(<<"<b>Tech:</b> ">> \o tech, "body_small")>> ELSE <<>>)
       \o (IF link_bits # <<>>
           THEN <<Paragraph(JoinWith(<<" ", "|", " ">>, link_bits), "body_small")>> ELSE <<>>)
       \o <<Spacer(10)>>

\* _resume_to_flowables(prof, doc_width)
resume_to_flowables(p) ==
    <<ResumeHeader(p), Spacer(12)>>
    \o (IF p_s(p.professional_summary) # <<>>
        THEN <<SectionHeader("Summary"), Spacer(6),
               Paragraph(Replace(p.professional_summary, NL, Str_br), "body"), Spacer(10)>>
        ELSE <<>>)
    \o (IF p.skills # <<>>
        THEN <<SectionHeader("Skills"), Spacer(6)>>
             \o Join([k \in 1..Len(p.skills) |-> p_skill_parts(p.skills[k])]) \o <<Spacer(10)>>
        ELSE <<>>)
    \o (IF p.experience # <<>>
        THEN <<SectionHeader("Experience"), Spacer(6)>>
             \o Join([k \in 1..Len(p.experience) |-> p_experience_parts(p.experience[k])])
        ELSE <<>>)
    \o (IF p.education # <<>>
        THEN <<SectionHeader("Education"), Spacer(6)>>
             \o Join([k \in 1..Len(p.education) |-> p_education_parts(p.education[k])])
        ELSE <<>>)
    \o (IF p.projects # <<>>
        THEN <<SectionHeader("Projects"), Spacer(6)>>
             \o Join([k \in 1..Len(p.projects) |-> p_project_parts(p.projects[k])])
        ELSE <<>>)

\* ------------------------------------------------------------------------
\* Document assemblers
\* ------------------------------------------------------------------------

\* BlockType (models/schemas_template.py), which is also the key set of
\* _RENDERERS and of `renderers`
BlockTypes == {"header", "summary", "skills", "experience", "education", "projects"}

\* dict.get(b.type): the renderer registered for the type, or None
NoRenderer == "None"
renderers_get(type) == IF type \in BlockTypes THEN type ELSE NoRenderer

\* `if not fn: continue`
not_fn_Never(fn) == FALSE
not_fn(fn) == fn = NoRenderer

\* rendered_blocks.append(rendered) / body_chunks.append(out)
list_append_Front(lst, x) == <<x>> \o lst
list_append(lst, x) == Append(lst, x)

\* fn(prof, b) for a registered fn
h_call(fn, p) ==
    CASE fn = "header" -> h_render_header(p)
      [] fn = "summary" -> h_render_summary(p)
      [] fn = "skills" -> h_render_skills(p)
      [] fn = "experience" -> h_render_experience(p)
      [] fn = "education" -> h_render_education(p)
      [] fn = "projects" -> h_render_projects(p)

\* The assembler loop from block i on. Beside the list of fragments it keeps
\* `from`, the position in `blocks` each fragment was rendered from. Calling
\* None raises TypeError and ends the loop.
NoFragments == [out |-> <<>>, from |-> <<>>, raised |-> FALSE]

\* `if rendered.strip(): rendered_blocks.append(rendered)` for block i
h_append(acc, i, rendered) ==
    IF Strip(rendered) # <<>>
    THEN [acc EXCEPT !.out = list_append(@, rendered), !.from = list_append(@, i)]
    ELSE acc

RECURSIVE h_loop(_, _, _, _)
h_loop(p, bl, i, acc) ==
    IF i > Len(bl) THEN acc
    ELSE LET fn == renderers_get(bl[i])
         IN IF not_fn(fn) THEN h_loop(p, bl, i + 1, acc)
            ELSE IF fn = NoRenderer THEN [acc EXCEPT !.raised = TRUE]
            ELSE h_loop(p, bl, i + 1, h_append(acc, i, h_call(fn, p)))

\* body_inner and the returned document, from the fragments the loop kept.
\* The style sheet _css(theme) and the Font Awesome link do not depend on the
\* record or the blocks.
h_assemble(r) ==
    LET body_inner == JoinWith(NL, r.out)
    IN IF r.raised THEN [state |-> "raised", error |-> "TypeError"]
       ELSE [state |-> "done", rendered_blocks |-> r.out, from |-> r.from,
             body_inner |-> body_inner,
             document |-> <<"<!doctype html>", "\n", "<html lang=\"en\">", "\n",
                            "<head>", "fa_link", "<style>", "css", "</style>", "</head>", "\n",
                            "<body>", "\n", "<article class=\"rp\">", "\n">>
                          \o body_inner
                          \o <<"\n", "</article>", "\n", "</body>", "\n", "</html>", "\n">>]

\* render_resume_html(prof, theme, blocks)
render_resume_html(p, bl) == h_assemble(h_loop(p, bl, 1, NoFragments))

\* fn() for a registered fn of `renderers`
l_call(fn, p) ==
    CASE fn = "header" -> render_header(p)
      [] fn = "summary" -> render_summary(p)
      [] fn = "skills" -> render_skills(p)
      [] fn = "experience" -> render_experience(p)
      [] fn = "education" -> render_education(p)
      [] fn = "projects" -> render_projects(p)

\* the loop of render_latex_with_template from block i on
\* `out = (fn() or "").strip(); if out: body_chunks.append(out)` for block i
l_append(acc, i, returned) ==
    LET out == Strip(Or(returned))
    IN IF out # <<>>
       THEN [acc EXCEPT !.out = list_append(@, out), !.from = list_append(@, i)]
       ELSE acc

RECURSIVE l_loop(_, _, _, _)
l_loop(p, bl, i, acc) ==
    IF i > Len(bl) THEN acc
    ELSE LET fn == renderers_get(bl[i])
         IN IF not_fn(fn) THEN l_loop(p, bl, i + 1, acc)
            ELSE IF fn = NoRenderer THEN [acc EXCEPT !.raised = TRUE]
            ELSE l_loop(p, bl, i + 1, l_append(acc, i, l_call(fn, p)))

\* body and the returned document, from the chunks the loop kept. The
\* preamble is built from the theme alone.
l_assemble(r) ==
    LET body == JoinWith(NL, r.out)
    IN IF r.raised THEN [state |-> "raised", error |-> "TypeError"]
       ELSE [state |-> "done", rendered_blocks |-> r.out, from |-> r.from,
             body_inner |-> body,
             document |-> <<"preamble">> \o body \o <<"\n", "\\end{document}", "\n">>]

\* render_latex_with_template(prof, theme, blocks)
render_latex_with_template(p, bl) == l_assemble(l_loop(p, bl, 1, NoFragments))

\* ------------------------------------------------------------------------
\* Records and block lists handed to the renderers
\* ------------------------------------------------------------------------

\* values of a link-bearing field: absent, blank, without a scheme (bare and
\* padded), with a scheme in lower and in upper case
LinkValues == { None, <<" ">>, <<"x",".","i","o">>, <<" ","x",".","i","o"," ">>,
                <<"h","t","t","p",":","/","/","g">>, <<"H","T","T","P","S",":","/","/","g">> }
StartDates == { None, <<" ">>, <<"2","0","2","0">>, <<" ","2","0","2","0">> }
EndDates == { None, <<>>, <<"2","0","2","2">> }

\* records that differ in the header fields alone
HeaderProfs ==
    { [NoProf EXCEPT !.name = n, !.title = t,
                     !.contact = [email |-> em, phone |-> ph, location |-> lo,
                                  linkedin |-> li, github |-> gh]] :
        n \in {None, <<" ">>, <<"A","l">>}, t \in {None, <<" ">>, <<"D","e","v">>},
        em \in {None, <<"a","@","b">>}, ph \in {None, <<"5","5">>},
        lo \in {None, <<" ">>, <<"5","5">>}, li \in LinkValues, gh \in LinkValues }

SummaryProfs ==
    { [NoProf EXCEPT !.professional_summary = s] :
        s \in {None, <<>>, <<" ">>, <<"o","k">>, <<"a","\n","b">>, <<"a","\\","n","b">>,
               <<"a","&","b">>} }

SkillGroups == [category : {None, <<" ">>, <<"L">>},
                skills : {<<>>, << <<" ">> >>, << <<"G","o">> >>, << <<"G","o">>, <<" ">>, <<"T","S">> >>}]
MaxGroups == 2
SkillsProfs ==
    { [NoProf EXCEPT !.skills = gs] : gs \in UNION { [1..n -> SkillGroups] : n \in 0..MaxGroups } }

ExperienceItems ==
    [title : {None, <<"D","e","v">>}, company : {None, <<" ">>, <<"A","c">>},
     company_address : {None, <<"N","Y">>}, start_date : StartDates, end_date : EndDates,
     summary : {None, <<" ">>, <<"d","i","d">>},
     responsibilities : {<<>>, << <<" ">> >>, << <<"r">>, OPEN \o <<"x">> \o CLOSE >>}]
ExperienceProfs ==
    { [NoProf EXCEPT !.experience = <<e>>] : e \in ExperienceItems }

EducationItems ==
    [institution : {None, <<" ">>, <<"M","I","T">>}, degree : {None, <<"B","S">>},
     field_of_study : {None, <<" ">>, <<"C","S">>}, location : {None, <<"N","Y">>},
     start_date : StartDates, end_date : EndDates, notes : {None, <<" ">>, <<"n">>}]
EducationProfs ==
    { [NoProf EXCEPT !.education = <<e>>] : e \in EducationItems }

ProjectItems ==
    [name : {None, <<" ">>, <<"P">>}, description : {None, <<" ">>, <<"d">>},
     technologies : {<<>>, << <<" ">> >>, << <<"G","o">> >>}, link : LinkValues]
ProjectsProfs ==
    { [NoProf EXCEPT !.projects = <<q>>] : q \in ProjectItems }

Profs == HeaderProfs \cup SummaryProfs \cup SkillsProfs \cup ExperienceProfs
         \cup EducationProfs \cup ProjectsProfs

\* _default_template_blocks() (db/repository.py)
DefaultBlocks == <<"header", "summary", "skills", "experience", "education", "projects">>

\* a record with data for every block, and one with none for summary and skills
FullProf ==
    [name |-> <<"A","l">>, title |-> <<"D","e","v">>,
     contact |-> [NoContact EXCEPT !.email = <<"a","@","b">>],
     professional_summary |-> <<"o","k">>,
     education |-> << [institution |-> <<"M","I","T">>, degree |-> <<"B","S">>,
                       field_of_study |-> None, location |-> None,
                       start_date |-> <<"2","0","2","0">>, end_date |-> None, notes |-> None] >>,
     experience |-> << [title |-> <<"D","e","v">>, company |-> <<"A","c">>,
                        company_address |-> None, start_date |-> <<"2","0","2","0">>,
                        end_date |-> <<"2","0","2","2">>, summary |-> None,
                        responsibilities |-> << <<"r">> >>] >>,
     projects |-> << [name |-> <<"P">>, description |-> <<"d">>, technologies |-> <<>>,
                      link |-> None] >>,
     skills |-> << [category |-> <<"L">>, skills |-> << <<"G","o">> >>] >>]
AssembleProfs == { NoProf, FullProf, [FullProf EXCEPT !.professional_summary = None, !.skills = <<>>] }

\* block lists of a template: any order, repeats, and a type of a later
\* template version that has no renderer
MaxBlocks == 3
BlockLists == UNION { [1..n -> BlockTypes \cup {"certifications"}] : n \in 0..MaxBlocks }

\* an export endpoint calls render_resume_html(prof=prof, blocks=blocks)
RenderHtml ==
    /\ r_html.state = "pending"
    /\ r_html' = render_resume_html(prof, blocks)
    /\ UNCHANGED <<prof, blocks, r_latex, r_pdf, tvars, cvars, pvars, fvars, xvars>>

\* an export endpoint calls render_latex_with_template(prof=prof, blocks=blocks)
RenderLatex ==
    /\ r_latex.state = "pending"
    /\ r_latex' = render_latex_with_template(prof, blocks)
    /\ UNCHANGED <<prof, blocks, r_html, r_pdf, tvars, cvars, pvars, fvars, xvars>>

\* an export endpoint calls _resume_to_flowables(prof, page.width)
RenderPdf ==
    /\ r_pdf.state = "pending"
    /\ r_pdf' = [state |-> "done", flowables |-> resume_to_flowables(prof)]
    /\ UNCHANGED <<prof, blocks, r_html, r_latex, tvars, cvars, pvars, fvars, xvars>>

\* ------------------------------------------------------------------------
\* Specifications
\* ------------------------------------------------------------------------

\* Template requests served one at a time
SeqNext ==
    \E p \in Tasks :
        \/ BeginAlone(p)
        \/ CreateFind(p)
        \/ CreateUnset(p)
        \/ CreateInsert(p)
        \/ UpdateGet(p)
        \/ UpdateFind(p)
        \/ UpdateUnset(p)
        \/ UpdateSave(p)
        \/ DuplicateGet(p)
        \/ DuplicateInsert(p)
        \/ GetDefaultFind(p)
        \/ EnsureFind(p)
        \/ EnsureInsert(p)

\* An empty collection (before init_db seeds it) and no request in flight; the
\* PDF call and the parsers are not exercised.
TemplatesInit ==
    /\ templates = <<>>
    /\ started = 0
    /\ pc = [p \in Tasks |-> "idle"]
    /\ req = [p \in Tasks |-> NoRequest]
    /\ existing_defaults = [p \in Tasks |-> <<>>]
    /\ doc = [p \in Tasks |-> NoDoc]
    /\ resp = NoResponse
    /\ c_pc = "off"
    /\ c_in = [filename_hint |-> Str_resume, margin |-> <<5, 1, 5, 1>>, html_doc |-> "html_a"]
    /\ playwright = "none"
    /\ browser = "none"
    /\ fonts = "pending"
    /\ pdf_bytes = <<>>
    /\ c_out = [kind |-> "running"]
    /\ segs = <<>>
    /\ text = <<>>
    /\ h_res = [state |-> "off"]
    /\ l_res = [state |-> "off"]
    /\ hint = <<>>
    /\ f_pdf = [state |-> "off"]
    /\ f_tex = [state |-> "off"]
    /\ prof = NoProf
    /\ blocks = <<>>
    /\ r_html = [state |-> "off"]
    /\ r_latex = [state |-> "off"]
    /\ r_pdf = [state |-> "off"]
    /\ primary_color = <<>>
    /\ css_res = [state |-> "off"]
    /\ tex_res = [state |-> "off"]
    /\ calls = <<>>
    /\ token = <<>>
    /\ auth_resume = [state |-> "off"]
    /\ auth_cover = [state |-> "off"]
    /\ pdf_path = <<>>
    /\ resolved = [state |-> "off"]
    /\ main_resolved = [state |-> "off"]
    /\ users = <<>>
    /\ tailored = <<>>
    /\ built = <<>>
    /\ letters = <<>>
    /\ api_resp = [op |-> "none"]

SpecSeq == TemplatesInit /\ [][SeqNext]_vars

\* Template requests interleaving at their await points
ConcNext ==
    \E p \in Tasks :
        \/ Begin(p)
        \/ CreateFind(p)
        \/ CreateUnset(p)
        \/ CreateInsert(p)
        \/ UpdateGet(p)
        \/ UpdateFind(p)
        \/ UpdateUnset(p)
        \/ UpdateSave(p)
        \/ DuplicateGet(p)
        \/ DuplicateInsert(p)
        \/ GetDefaultFind(p)
        \/ EnsureFind(p)
        \/ EnsureInsert(p)

SpecConc == TemplatesInit /\ [][ConcNext]_vars

\* One call of generate_pdf_with_headless_chrome
ChromeNext ==
    \/ Import
    \/ EnterPlaywright
    \/ Launch
    \/ NewPage
    \/ SetContent
    \/ EmulateMedia
    \/ WaitFonts
    \/ Pdf
    \/ Close
    \/ ExitAndReturn

\* generate_pdf_with_headless_chrome is called with some hint, margins and document
ChromeInit ==
    /\ templates = <<>>
    /\ started = 0
    /\ pc = [p \in Tasks |-> "idle"]
    /\ req = [p \in Tasks |-> NoRequest]
    /\ existing_defaults = [p \in Tasks |-> <<>>]
    /\ doc = [p \in Tasks |-> NoDoc]
    /\ resp = NoResponse
    /\ c_pc = "import"
    /\ c_in \in [filename_hint : Hints, margin : Margins, html_doc : HtmlDocs]
    /\ playwright = "none"
    /\ browser = "none"
    /\ fonts = "pending"
    /\ pdf_bytes = <<>>
    /\ c_out = [kind |-> "running"]
    /\ segs = <<>>
    /\ text = <<>>
    /\ h_res = [state |-> "off"]
    /\ l_res = [state |-> "off"]
    /\ hint = <<>>
    /\ f_pdf = [state |-> "off"]
    /\ f_tex = [state |-> "off"]
    /\ prof = NoProf
    /\ blocks = <<>>
    /\ r_html = [state |-> "off"]
    /\ r_latex = [state |-> "off"]
    /\ r_pdf = [state |-> "off"]
    /\ primary_color = <<>>
    /\ css_res = [state |-> "off"]
    /\ tex_res = [state |-> "off"]
    /\ calls = <<>>
    /\ token = <<>>
    /\ auth_resume = [state |-> "off"]
    /\ auth_cover = [state |-> "off"]
    /\ pdf_path = <<>>
    /\ resolved = [state |-> "off"]
    /\ main_resolved = [state |-> "off"]
    /\ users = <<>>
    /\ tailored = <<>>
    /\ built = <<>>
    /\ letters = <<>>
    /\ api_resp = [op |-> "none"]

SpecChrome == ChromeInit /\ [][ChromeNext]_vars

\* The emphasis parsers applied to one text
ParseNext == HtmlBold \/ LatexBold

\* a text field written from some segments, not yet rendered
ParseInit ==
    /\ templates = <<>>
    /\ started = 0
    /\ pc = [p \in Tasks |-> "idle"]
    /\ req = [p \in Tasks |-> NoRequest]
    /\ existing_defaults = [p \in Tasks |-> <<>>]
    /\ doc = [p \in Tasks |-> NoDoc]
    /\ resp = NoResponse
    /\ c_pc = "off"
    /\ c_in = [filename_hint |-> Str_resume, margin |-> <<5, 1, 5, 1>>, html_doc |-> "html_a"]
    /\ playwright = "none"
    /\ browser = "none"
    /\ fonts = "pending"
    /\ pdf_bytes = <<>>
    /\ c_out = [kind |-> "running"]
    /\ segs \in SegSeqs
    /\ text = Written(segs)
    /\ h_res = Pending
    /\ l_res = Pending
    /\ hint = <<>>
    /\ f_pdf = [state |-> "off"]
    /\ f_tex = [state |-> "off"]
    /\ prof = NoProf
    /\ blocks = <<>>
    /\ r_html = [state |-> "off"]
    /\ r_latex = [state |-> "off"]
    /\ r_pdf = [state |-> "off"]
    /\ primary_color = <<>>
    /\ css_res = [state |-> "off"]
    /\ tex_res = [state |-> "off"]
    /\ calls = <<>>
    /\ token = <<>>
    /\ auth_resume = [state |-> "off"]
    /\ auth_cover = [state |-> "off"]
    /\ pdf_path = <<>>
    /\ resolved = [state |-> "off"]
    /\ main_resolved = [state |-> "off"]
    /\ users = <<>>
    /\ tailored = <<>>
    /\ built = <<>>
    /\ letters = <<>>
    /\ api_resp = [op |-> "none"]

SpecParse == ParseInit /\ [][ParseNext]_vars

\* The two filename builders applied to one text
FileNext == SafeFilename \/ LatexFilename

\* a download is requested for a document with some title
FileInit ==
    /\ templates = <<>>
    /\ started = 0
    /\ pc = [p \in Tasks |-> "idle"]
    /\ req = [p \in Tasks |-> NoRequest]
    /\ existing_defaults = [p \in Tasks |-> <<>>]
    /\ doc = [p \in Tasks |-> NoDoc]
    /\ resp = NoResponse
    /\ c_pc = "off"
    /\ c_in = [filename_hint |-> Str_resume, margin |-> <<5, 1, 5, 1>>, html_doc |-> "html_a"]
    /\ playwright = "none"
    /\ browser = "none"
    /\ fonts = "pending"
    /\ pdf_bytes = <<>>
    /\ c_out = [kind |-> "running"]
    /\ segs = <<>>
    /\ text = <<>>
    /\ h_res = [state |-> "off"]
    /\ l_res = [state |-> "off"]
    /\ hint \in FileHints
    /\ f_pdf = Pending
    /\ f_tex = Pending
    /\ prof = NoProf
    /\ blocks = <<>>
    /\ r_html = [state |-> "off"]
    /\ r_latex = [state |-> "off"]
    /\ r_pdf = [state |-> "off"]
    /\ primary_color = <<>>
    /\ css_res = [state |-> "off"]
    /\ tex_res = [state |-> "off"]
    /\ calls = <<>>
    /\ token = <<>>
    /\ auth_resume = [state |-> "off"]
    /\ auth_cover = [state |-> "off"]
    /\ pdf_path = <<>>
    /\ resolved = [state |-> "off"]
    /\ main_resolved = [state |-> "off"]
    /\ users = <<>>
    /\ tailored = <<>>
    /\ built = <<>>
    /\ letters = <<>>
    /\ api_resp = [op |-> "none"]

SpecFile == FileInit /\ [][FileNext]_vars

\* The three back ends applied to one record and one block list
RenderNext == RenderHtml \/ RenderLatex \/ RenderPdf

\* a record is exported with the default template
BlocksInit ==
    /\ templates = <<>>
    /\ started = 0
    /\ pc = [p \in Tasks |-> "idle"]
    /\ req = [p \in Tasks |-> NoRequest]
    /\ existing_defaults = [p \in Tasks |-> <<>>]
    /\ doc = [p \in Tasks |-> NoDoc]
    /\ resp = NoResponse
    /\ c_pc = "off"
    /\ c_in = [filename_hint |-> Str_resume, margin |-> <<5, 1, 5, 1>>, html_doc |-> "html_a"]
    /\ playwright = "none"
    /\ browser = "none"
    /\ fonts = "pending"
    /\ pdf_bytes = <<>>
    /\ c_out = [kind |-> "running"]
    /\ segs = <<>>
    /\ text = <<>>
    /\ h_res = [state |-> "off"]
    /\ l_res = [state |-> "off"]
    /\ hint = <<>>
    /\ f_pdf = [state |-> "off"]
    /\ f_tex = [state |-> "off"]
    /\ prof \in Profs
    /\ blocks = DefaultBlocks
    /\ r_html = Pending
    /\ r_latex = Pending
    /\ r_pdf = Pending
    /\ primary_color = <<>>
    /\ css_res = [state |-> "off"]
    /\ tex_res = [state |-> "off"]
    /\ calls = <<>>
    /\ token = <<>>
    /\ auth_resume = [state |-> "off"]
    /\ auth_cover = [state |-> "off"]
    /\ pdf_path = <<>>
    /\ resolved = [state |-> "off"]
    /\ main_resolved = [state |-> "off"]
    /\ users = <<>>
    /\ tailored = <<>>
    /\ built = <<>>
    /\ letters = <<>>
    /\ api_resp = [op |-> "none"]

SpecBlocks == BlocksInit /\ [][RenderNext]_vars

\* a record is exported with a template holding some block list
AssembleInit ==
    /\ templates = <<>>
    /\ started = 0
    /\ pc = [p \in Tasks |-> "idle"]
    /\ req = [p \in Tasks |-> NoRequest]
    /\ existing_defaults = [p \in Tasks |-> <<>>]
    /\ doc = [p \in Tasks |-> NoDoc]
    /\ resp = NoResponse
    /\ c_pc = "off"
    /\ c_in = [filename_hint |-> Str_resume, margin |-> <<5, 1, 5, 1>>, html_doc |-> "html_a"]
    /\ playwright = "none"
    /\ browser = "none"
    /\ fonts = "pending"
    /\ pdf_bytes = <<>>
    /\ c_out = [kind |-> "running"]
    /\ segs = <<>>
    /\ text = <<>>
    /\ h_res = [state |-> "off"]
    /\ l_res = [state |-> "off"]
    /\ hint = <<>>
    /\ f_pdf = [state |-> "off"]
    /\ f_tex = [state |-> "off"]
    /\ prof \in AssembleProfs
    /\ blocks \in BlockLists
    /\ r_html = Pending
    /\ r_latex = Pending
    /\ r_pdf = Pending
    /\ primary_color = <<>>
    /\ css_res = [state |-> "off"]
    /\ tex_res = [state |-> "off"]
    /\ calls = <<>>
    /\ token = <<>>
    /\ auth_resume = [state |-> "off"]
    /\ auth_cover = [state |-> "off"]
    /\ pdf_path = <<>>
    /\ resolved = [state |-> "off"]
    /\ main_resolved = [state |-> "off"]
    /\ users = <<>>
    /\ tailored = <<>>
    /\ built = <<>>
    /\ letters = <<>>
    /\ api_resp = [op |-> "none"]

SpecAssemble == AssembleInit /\ [][RenderNext]_vars

\* ------------------------------------------------------------------------
\* Properties
\* ------------------------------------------------------------------------

\* Templates flagged default, read off the collection itself
Defaults == {id \in 1..Len(templates) : templates[id].is_default}

\* C1: after any sequence of completed, non-overlapping template requests
\* (create, update, duplicate, ensure_default, get_default, with any is_default
\* in the request) at most one template is flagged is_default.
C1_AtMostOneDefaultAfterCalls == AllIdle => Cardinality(Defaults) <= 1

\* C1 witness: a create or update that asked for the flag has completed on a
\* collection holding another template, and the flag sits on its template alone.
C1_Witness ==
    /\ AllIdle
    /\ started >= 2
    /\ Len(templates) >= 2
    /\ resp.op \in {"create", "update"}
    /\ resp.status = 200
    /\ resp.is_default
    /\ Defaults = {resp.id}
    /\ resp.id # 1

\* C2: with requests interleaving at their await points, no reachable state
\* has two templates flagged is_default.
C2_NoTwoDefaultsConcurrent == Cardinality(Defaults) <= 1

\* C3: the browser launched by generate_pdf_with_headless_chrome is closed on
\* every exit path of the call (return or raise).
C3_BrowserClosedOnEveryExit == c_pc \in {"returned", "raised"} => browser # "open"

\* C4: when the wait for fonts times out or raises, the call does not abort
\* there: it goes on to page.pdf, and when it returns it returns what page.pdf
\* printed together with the sanitized filename.
C4_FontsFailureDegrades ==
    fonts \in {"timeout", "error"} =>
        /\ c_pc \in {"pdf", "close", "exit", "returned", "raised"}
        /\ c_pc = "raised" => c_out.at \in {"pdf", "close"}
        /\ c_pc = "returned" =>
              /\ c_out.pdf_bytes = pdf_bytes
              /\ pdf_bytes.html_doc = c_in.html_doc
              /\ pdf_bytes.margin = c_in.margin
              /\ c_out.filename = safe_filename(c_in.filename_hint, Str_pdf)

\* C4 witness: a call returned after the font wait timed out.
C4_Witness == c_pc = "returned" /\ fonts = "timeout" /\ browser = "closed"

\* ---- emphasis parser ----

HDone == h_res.state = "done"
LDone == l_res.state = "done"

\* number of non-overlapping occurrences of sub in s
RECURSIVE CountOcc(_, _)
CountOcc(s, sub) ==
    LET k == Find(s, sub, 0)
    IN IF k = -1 THEN 0 ELSE 1 + CountOcc(Slice(s, k + Len(sub), Len(s)), sub)

NBold(spans) == Cardinality({k \in 1..Len(spans) : spans[k].bold})

HasBackslash(t) == \E k \in 1..Len(t) : t[k] = "\\"

\* A text written as well-formed, non-nested spans: plain pieces and span
\* interiors hold no backslash, plain pieces are non-empty and never adjacent
\* (spans may be).
WellFormed(gs) ==
    /\ \A k \in 1..Len(gs) : ~HasBackslash(gs[k].text) /\ (gs[k].bold \/ gs[k].text # <<>>)
    /\ \A k \in 1..(Len(gs) - 1) : gs[k].bold \/ gs[k + 1].bold

\* C5: a text of N well-formed, non-nested spans (adjacent spans included) is
\* split into exactly those N bold spans and the plain pieces between them, and
\* the output holds the bold construct exactly N times, in HTML and in LaTeX.
C5_EveryWellFormedSpanIsBold ==
    WellFormed(segs) =>
        /\ HDone => /\ h_res.spans = segs
                    /\ CountOcc(h_res.value, Str_strong) = NBold(segs)
        /\ LDone => /\ l_res.spans = segs
                    /\ CountOcc(l_res.value, Str_textbf) = NBold(segs)

Last(q) == q[Len(q)]

EndsWith(s, suffix) ==
    Len(suffix) <= Len(s) /\ Slice(s, Len(s) - Len(suffix), Len(s)) = suffix

\* What C6 asks of one finished scan r (escaped_tail: the rest of the field
\* from the unterminated token on, escaped; opener: the bold construct's
\* opening; returned_tail: escaped_tail as the returned string ends with it):
\* the piece for the unterminated token is escaped_tail, it is plain, it is the
\* last piece, the returned string ends with it, every span completed before it
\* is bold in the output, and no bold construct stems from it.
UnterminatedIsLiteral(r, escaped_tail, opener, returned_tail) ==
    LET k == r.unterminated_at
        tail == Slice(r.s, k, Len(r.s))
    IN /\ Slice(r.s, k, k + Len(OPEN)) = OPEN
       /\ Find(r.s, CLOSE, k + Len(OPEN)) = -1
       /\ Len(r.out) >= 1
       /\ Last(r.out) = escaped_tail
       /\ Slice(escaped_tail, 0, Len(OPEN)) = OPEN
       /\ Last(r.spans) = [bold |-> FALSE, text |-> tail]
       /\ CountOcc(escaped_tail, opener) = 0
       /\ CountOcc(r.value, opener) = NBold(r.spans)
       /\ EndsWith(r.value, returned_tail)

HTail == html_escape(Slice(h_res.s, h_res.unterminated_at, Len(h_res.s)))
LTail == escape_latex(Slice(l_res.s, l_res.unterminated_at, Len(l_res.s)))

C7_SpansCoverScannedText ==
    /\ HDone => Written(h_res.spans) = h_res.s /\ Len(h_res.out) = Len(h_res.spans)
    /\ LDone => Written(l_res.spans) = l_res.s /\ Len(l_res.out) = Len(l_res.spans)

\* C7 witness: both parsers cut a text into plain, bold, plain.
C7_Witness ==
    /\ HDone /\ LDone
    /\ Len(h_res.spans) = 3 /\ Len(l_res.spans) = 3
    /\ ~h_res.spans[1].bold /\ h_res.spans[2].bold /\ ~h_res.spans[3].bold
    /\ ~l_res.spans[1].bold /\ l_res.spans[2].bold /\ ~l_res.spans[3].bold
    /\ h_res.spans[2].text # <<>>

\* e consists of escape sequences and characters that are not control
\* characters of the format
RECURSIVE Neutral(_, _, _)
Neutral(e, controls, escapes) ==
    IF e = <<>> THEN TRUE
    ELSE LET led == {q \in escapes : Len(q) <= Len(e) /\ Slice(e, 0, Len(q)) = q}
         IN IF led # {}
            THEN LET q == CHOOSE q \in led : TRUE
                 IN Neutral(Slice(e, Len(q), Len(e)), controls, escapes)
            ELSE Head(e) \notin controls /\ Neutral(Tail(e), controls, escapes)

HtmlControls == {"&", "<", ">", "\"", "'"}
HtmlEscapes == {Str_amp, Str_lt, Str_gt, Str_quot, Str_apos}
LatexControls == {"&", "\\", "%", "$", "#", "_", "{", "}", "~", "^"}
LatexEscapes == { <<"\\","&">>, <<"\\","%">>, <<"\\","$">>, <<"\\","#">>, <<"\\","_">>,
                  <<"\\","{">>, <<"\\","}">>, Str_tilde, Str_circum }

\* every piece is its span's text neutralized, bold pieces inside the bold
\* construct and nothing else unescaped
PiecesNeutral(r, opener, closer, controls, escapes) ==
    \A k \in 1..Len(r.out) :
        LET piece == r.out[k] IN
        IF r.spans[k].bold
        THEN /\ Len(piece) >= Len(opener) + Len(closer)
             /\ Slice(piece, 0, Len(opener)) = opener
             /\ Slice(piece, Len(piece) - Len(closer), Len(piece)) = closer
             /\ Neutral(Slice(piece, Len(opener), Len(piece) - Len(closer)), controls, escapes)
        ELSE Neutral(piece, controls, escapes)

\* C8: in both back ends every control character of the target format that
\* occurs inside a plain or bold span (& and < in HTML; & \ % $ # _ { } ~ ^ in
\* LaTeX) reaches the output only in escaped form; the bold construct is the
\* only unescaped markup.
C8_ControlCharsNeutralized ==
    /\ HDone => PiecesNeutral(h_res, Str_strong, Str_strong_end, HtmlControls, HtmlEscapes)
    /\ LDone => PiecesNeutral(l_res, Str_textbf, <<"}">>, LatexControls, LatexEscapes)

\* C9: a text whose emphasis tokens are written with two backslashes gives
\* exactly the output of the same text written with single-backslash tokens,
\* in the HTML and in the LaTeX parser.
C9_DoubledTokensSameOutput ==
    WellFormed(segs) =>
        /\ HDone => h_res.value = h_bold_markers(WrittenDoubled(segs)).value
        /\ LDone => l_res.value = escape_latex_with_bold_markers(WrittenDoubled(segs)).value

\* C10: for every text the HTML parser and the LaTeX parser cut the same
\* spans: same scanned text, same boundaries, same bold flags, same handling of
\* an unterminated token.
C10_SameSpansInBothBackEnds ==
    (HDone /\ LDone) =>
        /\ h_res.s = l_res.s
        /\ h_res.spans = l_res.spans
        /\ h_res.unterminated_at = l_res.unterminated_at

\* C10 witness: both parsers finished a text with a bold span, a plain piece
\* holding a character each back end escapes differently, and an open token
\* left unterminated.
C10_Witness ==
    /\ HDone /\ LDone
    /\ NBold(h_res.spans) >= 1
    /\ h_res.unterminated_at >= 0
    /\ \E k \in 1..Len(h_res.spans) : ~h_res.spans[k].bold /\ h_res.spans[k].text = <<"&">>
    /\ h_res.value # l_res.value

\* ------------------------------------------------------------------------
\* Download filenames
\* ------------------------------------------------------------------------
Alnum == Upper \cup Lower \cup Digits

\* the part of a filename before its extension
StemOf(filename) == Slice(filename, 0, Find(filename, <<".">>, 0))

FDone == f_pdf.state = "done"
TDone == f_tex.state = "done"

\* sanitising leaves nothing: no letter or digit survives the ASCII reduction
NoAlnum(v) == \A k \in 1..Len(v) : \A j \in 1..Len(NFKD1(v[k])) : NFKD1(v[k])[j] \notin Alnum

GoodStem(v, st) ==
    /\ st # <<>>
    /\ Len(st) <= 50
    /\ \A k \in 1..Len(st) : st[k] \in StemChars
    /\ NoAlnum(v) => st = <<"r","e","s","u","m","e">>

\* C18: for every input text the stem of the download filename, as built by
\* _safe_filename and by generate_latex_from_resume_structured, is non-empty,
\* at most 50 characters long and made of [A-Za-z0-9-_] only, and it is
\* exactly "resume" when sanitising leaves nothing.
C18_StemIsSafe ==
    /\ FDone => GoodStem(hint, StemOf(f_pdf.filename))
    /\ TDone => GoodStem(hint, StemOf(f_tex.filename))

\* both builders have cut a text with an accented letter and punctuation to the limit
C18_Witness ==
    /\ FDone /\ TDone
    /\ Len(hint) > 50
    /\ \E k \in 1..Len(hint) : hint[k] = "e_acute"
    /\ \E k \in 1..Len(hint) : hint[k] = "!"
    /\ Len(StemOf(f_pdf.filename)) = 50
    /\ Len(StemOf(f_tex.filename)) = 50

\* every maximal run of whitespace inside v replaced by one hyphen
RECURSIVE RunsToHyphen(_)
RunsToHyphen(v) ==
    IF v = <<>> THEN <<>>
    ELSE IF Head(v) \in Whitespace THEN <<"-">> \o RunsToHyphen(LStrip(v, Whitespace))
    ELSE <<Head(v)>> \o RunsToHyphen(Tail(v))

WordsOnly(v) == \A k \in 1..Len(v) : v[k] \in Alnum \cup Whitespace

TidyStem(v, st) ==
    /\ st[1] \notin {"-", "_"}
    /\ st[Len(st)] \notin {"-", "_"}
    /\ Find(st, <<"-", "-">>, 0) = -1
    /\ (WordsOnly(v) /\ Strip(v) # <<>> /\ Len(v) <= 50) => st = RunsToHyphen(Strip(v))

\* C19: for every input text the final stem, after truncation to 50
\* characters, neither starts nor ends with a hyphen or underscore, holds no
\* two consecutive hyphens, and shows every run of whitespace of the input
\* (spaces, tabs, newlines) as a single hyphen.
C19_StemIsTidy ==
    /\ FDone => TidyStem(hint, StemOf(f_pdf.filename))
    /\ TDone => TidyStem(hint, StemOf(f_tex.filename))

\* ------------------------------------------------------------------------
\* Document assembly
\* ------------------------------------------------------------------------
HtmlDone == r_html.state = "done"
LatexDone == r_latex.state = "done"
PdfDone == r_pdf.state = "done"

\* what each back end's renderer returns for the block at position i, as the
\* assembler keeps it; nothing for a type without a renderer
HtmlFragment(i) == IF blocks[i] \in BlockTypes THEN Strip(h_call(blocks[i], prof)) ELSE <<>>
LatexFragment(i) == IF blocks[i] \in BlockTypes THEN Strip(l_call(blocks[i], prof)) ELSE <<>>

Increasing(q) == \A j \in 1..Len(q) : \A k \in 1..Len(q) : j < k => q[j] < q[k]

\* the fragments of r are those of the non-empty blocks, taken position by
\* position in the order of the blocks list, and the body is their sequence
InBlockOrder(r, Fragment(_)) ==
    /\ Increasing(r.from)
    /\ \A j \in 1..Len(r.from) : r.rendered_blocks[j] = Fragment(r.from[j])
    /\ \A i \in 1..Len(blocks) : Fragment(i) # <<>> => \E j \in 1..Len(r.from) : r.from[j] = i
    /\ Len(r.rendered_blocks) = Len(r.from)
    /\ r.body_inner = JoinWith(<<"\n">>, r.rendered_blocks)

\* C11: the fragments of the assembled document appear in exactly the order
\* of the template's blocks list, whatever the order of the block types; a type
\* that occurs k times is rendered k times, each occurrence at its own
\* position. Holds for render_resume_html and render_latex_with_template.
C11_FragmentsInBlockOrder ==
    /\ HtmlDone => InBlockOrder(r_html, HtmlFragment)
    /\ LatexDone => InBlockOrder(r_latex, LatexFragment)

\* skills before header, and skills twice: three fragments, the first and the
\* last the same
C11_Witness ==
    /\ HtmlDone /\ LatexDone
    /\ blocks = <<"skills", "header", "skills">>
    /\ prof = FullProf
    /\ Len(r_html.rendered_blocks) = 3 /\ r_html.rendered_blocks[1] = r_html.rendered_blocks[3]
    /\ Len(r_latex.rendered_blocks) = 3 /\ r_latex.rendered_blocks[1] = r_latex.rendered_blocks[3]
    /\ r_html.rendered_blocks[2] # r_html.rendered_blocks[1]

\* the blocks list without the blocks whose type has no renderer
Registered(bl) == SelectSeq(bl, LAMBDA b : b \in BlockTypes)

SameOutput(r, s) ==
    /\ s.state = "done"
    /\ r.rendered_blocks = s.rendered_blocks
    /\ r.body_inner = s.body_inner
    /\ r.document = s.document

\* C12: a block whose type has no registered renderer is skipped silently by
\* both assemblers: no exception is raised, and the output equals the output
\* for the same block list with that block removed.
C12_UnknownBlockSkipped ==
    /\ r_html.state # "raised"
    /\ r_latex.state # "raised"
    /\ HtmlDone => SameOutput(r_html, render_resume_html(prof, Registered(blocks)))
    /\ LatexDone => SameOutput(r_latex, render_latex_with_template(prof, Registered(blocks)))

\* a block of an unregistered type between two rendered blocks
C12_Witness ==
    /\ HtmlDone /\ LatexDone
    /\ blocks = <<"header", "certifications", "experience">>
    /\ prof = FullProf
    /\ Len(r_html.rendered_blocks) = 2
    /\ Len(r_latex.rendered_blocks) = 2

\* ------------------------------------------------------------------------
\* Block renderers
\* ------------------------------------------------------------------------

\* the text that follows the first occurrence of the piece `open` in a
\* fragment, up to the next piece of `closers`; Absent when `open` is not there
Absent == <<"Absent">>
TextOf(out, open, closers) ==
    LET a == Find(out, <<open>>, 0)
        ends == {k \in (a + 2)..Len(out) : out[k] \in closers}
    IN IF a = -1 \/ ends = {} THEN Absent
       ELSE Slice(out, a + 1, (CHOOSE k \in ends : \A j \in ends : k <= j) - 1)

\* the texts that follow every occurrence of `open`
RECURSIVE AllTextsOf(_, _, _)
AllTextsOf(out, open, closers) ==
    LET a == Find(out, <<open>>, 0)
    IN IF a = -1 THEN {}
       ELSE {TextOf(out, open, closers)} \cup AllTextsOf(Slice(out, a + 1, Len(out)), open, closers)

Blank(v) == Strip(Or(v)) = <<>>

\* C13: for a record with every optional field absent (name, title, summary
\* and all contact fields None; education, experience, projects and skills
\* empty) every block renderer returns empty output in every back end, and the
\* assembled body holds no section envelope and no block fragment.
C13_EmptyRecordRendersNothing ==
    prof = NoProf =>
        /\ HtmlDone => r_html.rendered_blocks = <<>> /\ r_html.body_inner = <<>>
        /\ LatexDone => r_latex.rendered_blocks = <<>> /\ r_latex.body_inner = <<>>

\* the record with its blank texts made absent: title, professional_summary,
\* notes, summary and category None where they are empty or whitespace-only,
\* and blank items dropped from the lists of strings
AsAbsent(v) == IF Blank(v) THEN None ELSE v
NoBlankItems(xs) == SelectSeq(xs, LAMBDA x : ~Blank(x))
BlanksAbsent(p) ==
    [p EXCEPT
        !.title = AsAbsent(@),
        !.professional_summary = AsAbsent(@),
        !.education = [k \in 1..Len(@) |-> [@[k] EXCEPT !.notes = AsAbsent(@)]],
        !.experience = [k \in 1..Len(@) |-> [@[k] EXCEPT !.summary = AsAbsent(@),
                                                           !.responsibilities = NoBlankItems(@)]],
        !.projects = [k \in 1..Len(@) |-> [@[k] EXCEPT !.technologies = NoBlankItems(@)]],
        !.skills = [k \in 1..Len(@) |-> [@[k] EXCEPT !.category = AsAbsent(@),
                                                     !.skills = NoBlankItems(@)]]]

\* C14: a record whose professional_summary, title, notes, summary, category
\* or list items are empty or whitespace-only renders exactly as the record
\* with those fields absent, so blank data gives no section envelope or element.
C14_BlankRendersAsAbsent ==
    /\ HtmlDone => r_html.body_inner = render_resume_html(BlanksAbsent(prof), blocks).body_inner
    /\ LatexDone => r_latex.body_inner = render_latex_with_template(BlanksAbsent(prof), blocks).body_inner

\* the pieces of markup that end an element's text
HtmlClosers == {"</div>", "\">"}
LatexClosers == {"}", "}}", "} & \\RPAddr{", "} & \\RPDates{", "} \\\\", "}{\\uline{",
                 "}{\\textcolor{Primary}{GitHub}}", "}{\\textcolor{Primary}{Demo}}"}

\* the text an element shows for a field is absent or empty
NoText(out, open, closers) == TextOf(out, open, closers) \in {Absent, <<>>}

\* C15: missing data is absorbed by rendering nothing, never by inventing
\* placeholder content: when a name, company, institution or project name is
\* absent no renderer emits a substitute string for it.
C15_NoPlaceholderForMissingData ==
    /\ HtmlDone =>
        /\ Blank(prof.name) => NoText(r_html.body_inner, "<div class=\"rp__headerMain\">", HtmlClosers)
        /\ \A k \in 1..Len(prof.experience) : Blank(prof.experience[k].company) =>
               NoText(r_html.body_inner, "<div class=\"rp__company\">", HtmlClosers)
        /\ \A k \in 1..Len(prof.education) : Blank(prof.education[k].institution) =>
               NoText(r_html.body_inner, "<div class=\"rp__school\">", HtmlClosers)
        /\ \A k \in 1..Len(prof.projects) : Blank(prof.projects[k].name) =>
               NoText(r_html.body_inner, "<div class=\"rp__company\">", HtmlClosers)
    /\ LatexDone =>
        /\ Blank(prof.name) =>
               NoText(r_latex.body_inner, "\\textbf{\\fontsize{20pt}{22pt}\\selectfont ", LatexClosers)
        /\ \A k \in 1..Len(prof.experience) : prof.experience[k].company = None =>
               NoText(r_latex.body_inner, "\\RPCompany{", LatexClosers)
        /\ \A k \in 1..Len(prof.education) : prof.education[k].institution = None =>
               NoText(r_latex.body_inner, "\\RPCompany{", LatexClosers)
        /\ \A k \in 1..Len(prof.projects) : prof.projects[k].name = None =>
               NoText(r_latex.body_inner, "\\RPCompany{", LatexClosers)

\* the labels of the contact fields that are not blank
ContactLabels(c) ==
    {Strip(v) : v \in {x \in {c.email, c.phone, c.location, c.linkedin, c.github} : ~Blank(x)}}

\* C16: contact items are de-duplicated by kind and then by label: when two
\* contact kinds carry the identical label only the first, in the order email,
\* phone, location, linkedin, github, is rendered, so the contact line of
\* every back end contains each distinct label exactly once.
C16_EachContactLabelOnce ==
    \A lab \in ContactLabels(prof.contact) :
        /\ HtmlDone => CountOcc(r_html.body_inner, lab) = 1
        /\ LatexDone => CountOcc(r_latex.body_inner, lab) = 1
        /\ PdfDone => Cardinality({k \in 1..Len(r_pdf.flowables[1].items) :
                                      r_pdf.flowables[1].items[k].label = lab}) = 1

\* the link target the claim gives for a stored value
TargetOf(v) ==
    LET s == Strip(v)
        scheme(n) == Len(s) >= n /\ lower(Slice(s, 0, n)) \in {Str_http, Str_https}
    IN IF scheme(7) \/ scheme(8) THEN s ELSE <<"h","t","t","p","s",":","/","/">> \o s

\* the values of the record's link-bearing fields that are not blank
LinkFields(p) ==
    {v \in {p.contact.linkedin, p.contact.github} \cup {p.projects[k].link : k \in 1..Len(p.projects)} :
        ~Blank(v)}

\* the link targets a fragment carries, the empty ones aside
HtmlTargets(out) ==
    (AllTextsOf(out, "<a class=\"rp__contactLink\" href=\"", HtmlClosers)
     \cup AllTextsOf(out, "<a class=\"rp__link\" href=\"", HtmlClosers)) \ {<<>>}
LatexTargets(out) == AllTextsOf(out, "\\href{", LatexClosers) \ {<<>>}

\* C17: a link is emitted with a scheme: for the LinkedIn and GitHub contact
\* fields and for a project's link, a stored value that does not start with
\* http:// or https:// (in any case) is emitted as "https://" followed by the
\* trimmed value and a value with a scheme is emitted unchanged, in the HTML
\* and in the LaTeX back end.
C17_LinkTargetsHaveScheme ==
    /\ HtmlDone => HtmlTargets(r_html.body_inner) \subseteq {TargetOf(v) : v \in LinkFields(prof)}
    /\ LatexDone => LatexTargets(r_latex.body_inner) \subseteq {TargetOf(v) : v \in LinkFields(prof)}

\* the date string the claim gives for a start/end pair
DateOf(start, end) ==
    LET s == Strip(Or(start))
        e == Strip(Or(end))
    IN CASE s # <<>> /\ e # <<>> -> s \o <<" ", "en_dash", " ">> \o e
         [] s # <<>> /\ e = <<>> -> s
         [] s = <<>> /\ e # <<>> -> e
         [] OTHER -> <<>>

\* An entry with the pair (start, end) shows DateOf(start, end) in each back
\* end. HTML leaves the dates element out when there is nothing to show; LaTeX
\* and the vector PDF keep an empty cell. `cell` is the flowable of the table
\* row that carries the dates.
ShowsDate(e, cell) ==
    LET d == DateOf(e.start_date, e.end_date)
    IN /\ HtmlDone => TextOf(r_html.body_inner, "<div class=\"rp__dates\">", HtmlClosers)
                          = (IF d = <<>> THEN Absent ELSE d)
       /\ LatexDone => TextOf(r_latex.body_inner, "} & \\RPDates{", LatexClosers) = d
       /\ PdfDone => r_pdf.flowables[cell].cells[2] = Paragraph(d, "dates")

ScanBounded(r) ==
    /\ r.iters <= Len(text)
    /\ r.iters <= Len(r.s)
    /\ (r.iters - 1) * (Len(OPEN) + Len(CLOSE)) <= Len(r.s)
    /\ r.iters <= NBold(r.spans) + 1

\* C30: the emphasis parser terminates on every finite input: the scan loop
\* has run, and the number of its iterations is at most the length of the
\* text, because every iteration that does not stop moves the index past an
\* open and a close token; in the HTML and in the LaTeX parser.
C30_ScanTerminates ==
    /\ HDone => ScanBounded(h_res)
    /\ LDone => ScanBounded(l_res)

\* two spans and a tail: three iterations in each parser
C30_Witness ==
    /\ HDone /\ LDone
    /\ h_res.iters = 3 /\ l_res.iters = 3
    /\ NBold(h_res.spans) = 2 /\ NBold(l_res.spans) = 2

\* ------------------------------------------------------------------------
\* get_default_resume_template
\* ------------------------------------------------------------------------

\* task p takes a step of a get_default_resume_template call
GetDefaultStep(p) == req[p].op = "get_default" /\ pc'[p] # pc[p]

FetchOrCreateStep(p) ==
    GetDefaultStep(p) =>
        /\ Len(templates') >= Len(templates)
        /\ \A id \in 1..Len(templates) : templates'[id] = templates[id]
        /\ Len(templates') > Len(templates) => Defaults = {}
        /\ pc'[p] = "idle" =>
              /\ resp'.op = "get_default" /\ resp'.status = 200
              /\ resp'.is_default
              /\ Defaults' # {}

\* C24: get_default_resume_template is fetch-or-create: the template it
\* returns is flagged is_default, it inserts a template only in a state where
\* no template of the collection is flagged is_default, no step of it changes
\* a template that exists, and when it returns some template is flagged.
C24_FetchOrCreateDefault == [][\A p \in Tasks : FetchOrCreateStep(p)]_vars

\* ------------------------------------------------------------------------
\* The two template back ends against each other
\* ------------------------------------------------------------------------

HtmlTitles == AllTextsOf(r_html.body_inner,
                         "<div class=\"rp__sectionHead\"><div class=\"rp__sectionTitle\">",
                         {"</div></div>"})
LatexTitles == AllTextsOf(r_latex.body_inner, "\\SectionHeader{", {"}"})

\* number of skill groups each back end shows
HtmlSkillGroups == CountOcc(r_html.body_inner, <<"<div class=\"rp__skillLine\">">>)
LatexSkillGroups == CountOcc(r_latex.body_inner, <<"\\RPSkillItems{">>)
                    + CountOcc(r_latex.body_inner, <<":} \\RPSkillItems{">>)

SameBlocks == r_html.from = r_latex.from
SameTitles == HtmlTitles = LatexTitles
SameSkillGroups == HtmlSkillGroups = LatexSkillGroups

\* C22: for the same record and block list the HTML and the LaTeX assembler
\* keep a fragment for the same block positions, show the same section
\* titles, and show the same number of skill groups; a block is empty in one
\* back end exactly when it is empty in the other.
C22_BackEndsRenderSameBlocks ==
    (HtmlDone /\ LatexDone) => (SameBlocks /\ SameTitles /\ SameSkillGroups)

\* ------------------------------------------------------------------------
\* Theme color in the envelopes (resume_template_renderer.py,
\* resume_creator_overleaf.py)
\* ------------------------------------------------------------------------

Str_default_color == <<"#","0","0","B","B","F","9">>
Str_default_hex == <<"0","0","B","B","F","9">>
ShortHexLen == 3
LongHexLen == 6

HexDigitSeq == <<"0","1","2","3","4","5","6","7","8","9","A","B","C","D","E","F">>
HexDigits == {HexDigitSeq[k] : k \in 1..16} \cup {"a","b","c","d","e","f"}

\* s.upper()
upper(s) == [k \in 1..Len(s) |->
                IF s[k] \in Lower THEN UpperSeq[CHOOSE j \in 1..Len(LowerSeq) : LowerSeq[j] = s[k]]
                ELSE s[k]]

\* "".join([ch * 2 for ch in hx])
double_each(hx) == [k \in 1..(2 * Len(hx)) |-> hx[(k + 1) \div 2]]

\* int(two, 16) for two characters without sign, space or underscore;
\* -1 stands for ValueError
int16(two) ==
    IF \E k \in 1..Len(two) : two[k] \notin HexDigits THEN -1
    ELSE LET val(ch) == (CHOOSE j \in 1..16 : HexDigitSeq[j] = upper(<<ch>>)[1]) - 1
         IN 16 * val(two[1]) + val(two[2])

\* _rgba_from_hex(color, 0.9)
rgba_from_hex(color) ==
    LET c == Strip(Or(color))
        hx0 == Strip(Slice(c, 1, Len(c)))
        hx == IF Len(hx0) = ShortHexLen THEN double_each(hx0) ELSE hx0
    IN IF ~startswith(c, <<"#">>) THEN [kind |-> "text", value |-> c]
       ELSE IF Len(hx) # LongHexLen THEN [kind |-> "text", value |-> c]
       ELSE IF int16(Slice(hx, 0, 2)) = -1 \/ int16(Slice(hx, 2, 4)) = -1
               \/ int16(Slice(hx, 4, 6)) = -1
            THEN [kind |-> "text", value |-> c]
       ELSE [kind |-> "rgba", r |-> int16(Slice(hx, 0, 2)), g |-> int16(Slice(hx, 2, 4)),
             b |-> int16(Slice(hx, 4, 6)), a |-> "0.9"]

\* primary = (theme.primary_color or "#00BBF9").strip() or "#00BBF9"
css_primary(color) ==
    LET given == IF Truthy(color) THEN color ELSE Str_default_color
    IN IF Strip(given) # <<>> THEN Strip(given) ELSE Str_default_color

\* _css(theme): the values written after `--primary:` and `border-top: 1px dotted`
css(color) ==
    [state |-> "done", primary |-> css_primary(color),
     primary_dotted |-> rgba_from_hex(css_primary(color))]

\* _hex6(v)
hex6(v) ==
    LET s0 == LStrip(Strip(Or(v)), {"#"})
        s == IF Len(s0) = ShortHexLen THEN double_each(s0) ELSE s0
    IN IF Len(s) # LongHexLen THEN Str_default_hex
       ELSE IF \E k \in 1..Len(s) : s[k] \notin HexDigits THEN Str_default_hex
       ELSE upper(s)

\* render_latex_with_template: \definecolor{Primary}{HTML}{primary_hex}
preamble_color(color) == [state |-> "done", primary_hex |-> hex6(color)]

\* theme.primary_color: a prefix, then three or six characters
ColorPrefixes == { <<>>, <<"#">>, <<" ", "#">> }
ColorChars == {"f", "0", "A", "g"}
ThemeColors ==
    { pre \o d : pre \in ColorPrefixes, d \in [1..ShortHexLen -> ColorChars] }
    \cup { <<"#">> \o double_each(d) \o t : d \in [1..2 -> {"f", "0"}], t \in {<<"A","b">>, <<"A">>} }
    \cup { <<>>, <<" ">>, Str_default_color }

\* an export calls _css(theme)
Css ==
    /\ css_res.state = "pending"
    /\ css_res' = css(primary_color)
    /\ UNCHANGED <<primary_color, tex_res, tvars, cvars, pvars, fvars, rvars, callvars, authvars, pathvars, apivars>>

\* an export calls render_latex_with_template(theme=theme)
Preamble ==
    /\ tex_res.state = "pending"
    /\ tex_res' = preamble_color(primary_color)
    /\ UNCHANGED <<primary_color, css_res, tvars, cvars, pvars, fvars, rvars, callvars, authvars, pathvars, apivars>>

ColorNext == Css \/ Preamble

\* a template with some primary_color is exported
ColorInit ==
    /\ templates = <<>>
    /\ started = 0
    /\ pc = [p \in Tasks |-> "idle"]
    /\ req = [p \in Tasks |-> NoRequest]
    /\ existing_defaults = [p \in Tasks |-> <<>>]
    /\ doc = [p \in Tasks |-> NoDoc]
    /\ resp = NoResponse
    /\ c_pc = "off"
    /\ c_in = [filename_hint |-> Str_resume, margin |-> <<5, 1, 5, 1>>, html_doc |-> "html_a"]
    /\ playwright = "none"
    /\ browser = "none"
    /\ fonts = "pending"
    /\ pdf_bytes = <<>>
    /\ c_out = [kind |-> "running"]
    /\ segs = <<>>
    /\ text = <<>>
    /\ h_res = [state |-> "off"]
    /\ l_res = [state |-> "off"]
    /\ hint = <<>>
    /\ f_pdf = [state |-> "off"]
    /\ f_tex = [state |-> "off"]
    /\ prof = NoProf
    /\ blocks = <<>>
    /\ r_html = [state |-> "off"]
    /\ r_latex = [state |-> "off"]
    /\ r_pdf = [state |-> "off"]
    /\ primary_color \in ThemeColors
    /\ css_res = Pending
    /\ tex_res = Pending
    /\ calls = <<>>
    /\ token = <<>>
    /\ auth_resume = [state |-> "off"]
    /\ auth_cover = [state |-> "off"]
    /\ pdf_path = <<>>
    /\ resolved = [state |-> "off"]
    /\ main_resolved = [state |-> "off"]
    /\ users = <<>>
    /\ tailored = <<>>
    /\ built = <<>>
    /\ letters = <<>>
    /\ api_resp = [op |-> "none"]

SpecColor == ColorInit /\ [][ColorNext]_vars

CssDone == css_res.state = "done"
TexDone == tex_res.state = "done"

\* primary_color is "#" and three hexadecimal digits
IsShorthand(v) ==
    /\ Len(v) = ShortHexLen + 1
    /\ v[1] = "#"
    /\ \A k \in 2..Len(v) : v[k] \in HexDigits

\* the six digits a shorthand color stands for
Expanded(v) == upper(double_each(Slice(v, 1, Len(v))))

\* C21: a primary_color given as "#" and three hexadecimal digits is written
\* in its six-digit form in both envelopes: the value after `--primary:` in
\* the HTML style block is "#" and the six digits, and the LaTeX color
\* definition holds the same six digits.
C21_ShorthandColorExpanded ==
    IsShorthand(primary_color) =>
        /\ CssDone => (Len(css_res.primary) = LongHexLen + 1
                       /\ upper(css_res.primary) = <<"#">> \o Expanded(primary_color))
        /\ TexDone => tex_res.primary_hex = Expanded(primary_color)

\* ------------------------------------------------------------------------
\* Repeated assembler calls
\* ------------------------------------------------------------------------

MaxCalls == 3

\* `_RENDERERS.get(b.type)` / `renderers.get(b.type)`: the one field of a
\* TemplateBlock the assemblers read. The HTML renderers receive the block as
\* `_block` and do not use it; the LaTeX renderers do not receive it.
\* (variant: a block with non-empty props is looked up under another type)
block_type_ByProps(b) == IF b.props = "none" THEN b.type ELSE "certifications"
block_type(b) == b.type
block_types(bl) == [k \in 1..Len(bl) |-> block_type(bl[k])]

\* render_resume_html(prof=p, theme=th, blocks=bl)
call_html(p, th, bl) ==
    [doc |-> render_resume_html(p, block_types(bl)), envelope |-> css(th.primary_color)]

\* render_latex_with_template(prof=p, theme=th, blocks=bl)
call_latex(p, th, bl) ==
    [doc |-> render_latex_with_template(p, block_types(bl)),
     envelope |-> preamble_color(th.primary_color)]

\* TemplateBlock(type, props, style): props and style as one tag
TemplateBlock(t, x) == [type |-> t, props |-> x]

\* what a caller passes: a record with its theme, and a block list
CallRecords == { [prof |-> FullProf, theme |-> [primary_color |-> <<"#","f","f","f">>]],
                 [prof |-> NoProf, theme |-> [primary_color |-> Str_default_color]] }
CallBlockLists == { << TemplateBlock("header", "none"), TemplateBlock("summary", "none") >>,
                    << TemplateBlock("header", "none"), TemplateBlock("summary", "bold") >>,
                    << TemplateBlock("summary", "none") >> }

\* The call reads its arguments and assigns to none of them, to no attribute
\* of them and to no module-level name: what the caller holds afterwards is
\* what it passed.
Call(fn, c, bl, out) ==
    /\ Len(calls) < MaxCalls
    /\ calls' = Append(calls, [fn |-> fn, prof |-> c.prof, theme |-> c.theme, blocks |-> bl,
                               after |-> [prof |-> c.prof, theme |-> c.theme, blocks |-> bl],
                               out |-> out])

\* an export endpoint calls render_resume_html
CallHtml ==
    /\ \E c \in CallRecords, bl \in CallBlockLists : Call("html", c, bl, call_html(c.prof, c.theme, bl))
    /\ UNCHANGED <<tvars, cvars, pvars, fvars, rvars, colorvars, authvars, pathvars, apivars>>

\* an export endpoint calls render_latex_with_template
CallLatex ==
    /\ \E c \in CallRecords, bl \in CallBlockLists : Call("latex", c, bl, call_latex(c.prof, c.theme, bl))
    /\ UNCHANGED <<tvars, cvars, pvars, fvars, rvars, colorvars, authvars, pathvars, apivars>>

CallNext == CallHtml \/ CallLatex

\* no assembler call made yet
CallInit ==
    /\ templates = <<>>
    /\ started = 0
    /\ pc = [p \in Tasks |-> "idle"]
    /\ req = [p \in Tasks |-> NoRequest]
    /\ existing_defaults = [p \in Tasks |-> <<>>]
    /\ doc = [p \in Tasks |-> NoDoc]
    /\ resp = NoResponse
    /\ c_pc = "off"
    /\ c_in = [filename_hint |-> Str_resume, margin |-> <<5, 1, 5, 1>>, html_doc |-> "html_a"]
    /\ playwright = "none"
    /\ browser = "none"
    /\ fonts = "pending"
    /\ pdf_bytes = <<>>
    /\ c_out = [kind |-> "running"]
    /\ segs = <<>>
    /\ text = <<>>
    /\ h_res = [state |-> "off"]
    /\ l_res = [state |-> "off"]
    /\ hint = <<>>
    /\ f_pdf = [state |-> "off"]
    /\ f_tex = [state |-> "off"]
    /\ prof = NoProf
    /\ blocks = <<>>
    /\ r_html = [state |-> "off"]
    /\ r_latex = [state |-> "off"]
    /\ r_pdf = [state |-> "off"]
    /\ primary_color = <<>>
    /\ css_res = [state |-> "off"]
    /\ tex_res = [state |-> "off"]
    /\ calls = <<>>
    /\ token = <<>>
    /\ auth_resume = [state |-> "off"]
    /\ auth_cover = [state |-> "off"]
    /\ pdf_path = <<>>
    /\ resolved = [state |-> "off"]
    /\ main_resolved = [state |-> "off"]
    /\ users = <<>>
    /\ tailored = <<>>
    /\ built = <<>>
    /\ letters = <<>>
    /\ api_resp = [op |-> "none"]

SpecCall == CallInit /\ [][CallNext]_vars

TypesOf(bl) == [k \in 1..Len(bl) |-> bl[k].type]

InputsKept(c) == c.after = [prof |-> c.prof, theme |-> c.theme, blocks |-> c.blocks]

SameArguments(c, d) ==
    /\ c.fn = d.fn
    /\ c.prof = d.prof
    /\ c.theme = d.theme
    /\ TypesOf(c.blocks) = TypesOf(d.blocks)

SubClaims == { [in |-> FALSE],
               [in |-> TRUE, str |-> FALSE],
               [in |-> TRUE, str |-> TRUE, value |-> ""],
               [in |-> TRUE, str |-> TRUE, value |-> " "],
               [in |-> TRUE, str |-> TRUE, value |-> "u1"],
               [in |-> TRUE, str |-> TRUE, value |-> "u2"] }
Tokens == [parses : BOOLEAN, signed : BOOLEAN, expired : BOOLEAN, role : BOOLEAN, sub : SubClaims]

\* decode_token: jwt.decode(token, JWT_SECRET_KEY, algorithms=[JWT_ALGORITHM])
\* returns the claims, or raises for a token that does not parse, whose
\* signature does not verify, whose exp has passed or whose sub is not a string.
decode_token(t) ==
    IF ~t.parses THEN [raised |-> "JWTError"]
    ELSE IF ~t.signed THEN [raised |-> "JWTError"]
    ELSE IF t.expired THEN [raised |-> "ExpiredSignatureError"]
    ELSE IF t.sub.in /\ ~t.sub.str THEN [raised |-> "JWTClaimsError"]
    ELSE [raised |-> "", payload |-> [sub |-> t.sub, role |-> t.role]]

\* payload.get("sub", "")
payload_get_sub(payload) == IF payload.sub.in THEN payload.sub.value ELSE ""

\* `not sub`
\* (variant: no subject counts as empty)
not_sub_Never(sub) == FALSE
not_sub(sub) == sub = ""

HTTPException(status_code, detail) == [state |-> "raised", status_code |-> status_code, detail |-> detail]

\* routers/resume.py require_auth: the HTTPException raised inside the try
\* block is an Exception, so the except clause replaces it
require_auth(t) ==
    LET decoded == decode_token(t) IN
    IF decoded.raised # "" THEN HTTPException(401, "Invalid or expired token")
    ELSE IF not_sub(payload_get_sub(decoded.payload))
         THEN HTTPException(401, "Invalid or expired token")
         ELSE [state |-> "returned", sub |-> payload_get_sub(decoded.payload)]

\* routers/cover_letter.py require_auth
cover_letter_require_auth(t) ==
    LET decoded == decode_token(t) IN
    IF decoded.raised # "" THEN HTTPException(401, "Invalid or expired token")
    ELSE IF not_sub(payload_get_sub(decoded.payload))
         THEN HTTPException(401, "Invalid or expired token")
         ELSE [state |-> "returned", sub |-> payload_get_sub(decoded.payload)]

\* a request to the resume router is authenticated
RequireAuth ==
    /\ auth_resume.state = "pending"
    /\ auth_resume' = require_auth(token)
    /\ UNCHANGED <<token, auth_cover, tvars, cvars, pvars, fvars, rvars, colorvars, callvars, pathvars, apivars>>

\* a request with the same token to the cover-letter router is authenticated
CoverLetterRequireAuth ==
    /\ auth_cover.state = "pending"
    /\ auth_cover' = cover_letter_require_auth(token)
    /\ UNCHANGED <<token, auth_resume, tvars, cvars, pvars, fvars, rvars, colorvars, callvars, pathvars, apivars>>

AuthNext == RequireAuth \/ CoverLetterRequireAuth

\* a client presents some bearer token to both routers
AuthInit ==
    /\ templates = <<>>
    /\ started = 0
    /\ pc = [p \in Tasks |-> "idle"]
    /\ req = [p \in Tasks |-> NoRequest]
    /\ existing_defaults = [p \in Tasks |-> <<>>]
    /\ doc = [p \in Tasks |-> NoDoc]
    /\ resp = NoResponse
    /\ c_pc = "off"
    /\ c_in = [filename_hint |-> Str_resume, margin |-> <<5, 1, 5, 1>>, html_doc |-> "html_a"]
    /\ playwright = "none"
    /\ browser = "none"
    /\ fonts = "pending"
    /\ pdf_bytes = <<>>
    /\ c_out = [kind |-> "running"]
    /\ segs = <<>>
    /\ text = <<>>
    /\ h_res = [state |-> "off"]
    /\ l_res = [state |-> "off"]
    /\ hint = <<>>
    /\ f_pdf = [state |-> "off"]
    /\ f_tex = [state |-> "off"]
    /\ prof = NoProf
    /\ blocks = <<>>
    /\ r_html = [state |-> "off"]
    /\ r_latex = [state |-> "off"]
    /\ r_pdf = [state |-> "off"]
    /\ primary_color = <<>>
    /\ css_res = [state |-> "off"]
    /\ tex_res = [state |-> "off"]
    /\ calls = <<>>
    /\ token \in Tokens
    /\ auth_resume = [state |-> "pending"]
    /\ auth_cover = [state |-> "pending"]
    /\ pdf_path = <<>>
    /\ resolved = [state |-> "off"]
    /\ main_resolved = [state |-> "off"]
    /\ users = <<>>
    /\ tailored = <<>>
    /\ built = <<>>
    /\ letters = <<>>
    /\ api_resp = [op |-> "none"]

SpecAuth == AuthInit /\ [][AuthNext]_vars

\* the token decodes and its claims hold a non-empty sub
GoodToken(t) ==
    /\ t.parses /\ t.signed /\ ~t.expired
    /\ t.sub.in /\ t.sub.str /\ t.sub.value # ""

AuthOutcome(a, t) ==
    a.state # "pending" =>
        IF GoodToken(t)
        THEN a.state = "returned" /\ a.sub = t.sub.value
        ELSE a.state = "raised" /\ a.status_code = 401

\* C28: require_auth returns a subject only for a token that decodes and
\* whose sub is non-empty, and then returns that sub; for every other token
\* it raises HTTP 401; the resume router's copy and the cover-letter
\* router's copy give the same outcome for the same token.
C28_RequireAuth ==
    /\ AuthOutcome(auth_resume, token)
    /\ AuthOutcome(auth_cover, token)
    /\ (auth_resume.state # "pending" /\ auth_cover.state # "pending") => auth_resume = auth_cover

\* a decodable token with an empty sub was rejected by both copies
C28_Witness ==
    /\ token.parses /\ token.signed /\ ~token.expired
    /\ token.sub.in /\ token.sub.str /\ token.sub.value = ""
    /\ auth_resume.state = "raised"
    /\ auth_cover.state = "raised"

\* ------------------------------------------------------------------------
\* _safe_resolve_pdf_path
\* ------------------------------------------------------------------------

MaxPathParts == 4

Str_sep == <<"/">>
Str_dotdot == <<".", ".">>
Str_dot_pdf == <<".", "p", "d", "f">>

\* BASE_RESUME_DIR, and the paths that exist on the server: the directory,
\* a resume in it under either spelling of the extension, a sub-directory,
\* and two files outside of it, one of which continues the directory's name
BASE_RESUME_DIR == <<"/", "d">>
ExistingPaths == { <<"/">>,
                   <<"/", "d">>,
                   <<"/", "d", "/", "a", ".", "p", "d", "f">>,
                   <<"/", "d", "/", "d", ".", "P", "D", "F">>,
                   <<"/", "d", "/", "a">>,
                   <<"/", "a", ".", "p", "d", "f">>,
                   <<"/", "d", ".", "p", "d", "f">> }

\* path.split("/")
RECURSIVE path_split(_)
path_split(path) ==
    LET k == Find(path, Str_sep, 0)
    IN IF k = -1 THEN <<path>>
       ELSE <<Slice(path, 0, k)>> \o path_split(Slice(path, k + 1, Len(path)))

\* posixpath.normpath of an absolute path with one leading slash: empty and
\* "." components are skipped, ".." removes the component before it and is
\* dropped at the root
RECURSIVE norm_comps(_, _)
norm_comps(comps, new_comps) ==
    IF comps = <<>> THEN new_comps
    ELSE LET comp == Head(comps)
         IN IF comp = <<>> \/ comp = <<".">> THEN norm_comps(Tail(comps), new_comps)
            ELSE IF comp # Str_dotdot THEN norm_comps(Tail(comps), Append(new_comps, comp))
            ELSE IF new_comps # <<>>
                 THEN norm_comps(Tail(comps), Slice(new_comps, 0, Len(new_comps) - 1))
                 ELSE norm_comps(Tail(comps), new_comps)

\* os.path.abspath(path) for a path that starts with one slash
abspath(path) == Str_sep \o JoinWith(Str_sep, norm_comps(path_split(path), <<>>))

\* os.path.join(a, b)
path_join(a, b) ==
    IF startswith(b, Str_sep) THEN b
    ELSE IF a = <<>> \/ EndsWith(a, Str_sep) THEN a \o b
    ELSE a \o Str_sep \o b

\* `full_path == base or full_path.startswith(base + os.sep)`
\* (variant: the prefix is compared without the separator)
under_base_NoSep(full_path, base) == full_path = base \/ startswith(full_path, base)
under_base(full_path, base) == full_path = base \/ startswith(full_path, base \o Str_sep)

\* os.path.exists(full_path)
path_exists(full_path) == full_path \in ExistingPaths

\* _safe_resolve_pdf_path(pdf_path); exists_called records whether
\* os.path.exists was reached
safe_resolve_checks(full_path, base) ==
    IF ~under_base(full_path, base)
    THEN [state |-> "done", exists_called |-> FALSE,
          out |-> HTTPException(400, <<"Invalid pdf_path (outside allowed directory).">>)]
    ELSE IF ~path_exists(full_path)
    THEN [state |-> "done", exists_called |-> TRUE,
          out |-> HTTPException(404, <<"PDF not found: ">> \o full_path)]
    ELSE IF ~EndsWith(lower(full_path), Str_dot_pdf)
    THEN [state |-> "done", exists_called |-> TRUE,
          out |-> HTTPException(400, <<"Only .pdf files are supported.">>)]
    ELSE [state |-> "done", exists_called |-> TRUE,
          out |-> [state |-> "returned", full_path |-> full_path]]

safe_resolve_pdf_path(path) ==
    safe_resolve_checks(abspath(path_join(BASE_RESUME_DIR, LStrip(Strip(path), {"/"}))),
                        abspath(BASE_RESUME_DIR))

\* what a client can send as pdf_path: up to MaxPathParts of these pieces
PathPieces == { <<"/">>, Str_dotdot, <<"d">>, <<"a">>, Str_dot_pdf, <<".", "P", "D", "F">>, <<" ">> }
PdfPaths == { Join(ps) : ps \in UNION { [1..n -> PathPieces] : n \in 0..MaxPathParts } }

\* GET /resume/format resolves pdf_path
SafeResolve ==
    /\ resolved.state = "pending"
    /\ resolved' = safe_resolve_pdf_path(pdf_path)
    /\ UNCHANGED <<pdf_path, main_resolved, tvars, cvars, pvars, fvars, rvars, colorvars, callvars, authvars, apivars>>

\* the copy in main.py resolves the same pdf_path
MainSafeResolve ==
    /\ main_resolved.state = "pending"
    /\ main_resolved' = safe_resolve_pdf_path(pdf_path)
    /\ UNCHANGED <<pdf_path, resolved, tvars, cvars, pvars, fvars, rvars, colorvars, callvars, authvars, apivars>>

PathNext == SafeResolve \/ MainSafeResolve

\* a client sends some pdf_path
PathInit ==
    /\ templates = <<>>
    /\ started = 0
    /\ pc = [p \in Tasks |-> "idle"]
    /\ req = [p \in Tasks |-> NoRequest]
    /\ existing_defaults = [p \in Tasks |-> <<>>]
    /\ doc = [p \in Tasks |-> NoDoc]
    /\ resp = NoResponse
    /\ c_pc = "off"
    /\ c_in = [filename_hint |-> Str_resume, margin |-> <<5, 1, 5, 1>>, html_doc |-> "html_a"]
    /\ playwright = "none"
    /\ browser = "none"
    /\ fonts = "pending"
    /\ pdf_bytes = <<>>
    /\ c_out = [kind |-> "running"]
    /\ segs = <<>>
    /\ text = <<>>
    /\ h_res = [state |-> "off"]
    /\ l_res = [state |-> "off"]
    /\ hint = <<>>
    /\ f_pdf = [state |-> "off"]
    /\ f_tex = [state |-> "off"]
    /\ prof = NoProf
    /\ blocks = <<>>
    /\ r_html = [state |-> "off"]
    /\ r_latex = [state |-> "off"]
    /\ r_pdf = [state |-> "off"]
    /\ primary_color = <<>>
    /\ css_res = [state |-> "off"]
    /\ tex_res = [state |-> "off"]
    /\ calls = <<>>
    /\ token = <<>>
    /\ auth_resume = [state |-> "off"]
    /\ auth_cover = [state |-> "off"]
    /\ pdf_path \in PdfPaths
    /\ resolved = [state |-> "pending"]
    /\ main_resolved = [state |-> "pending"]
    /\ users = <<>>
    /\ tailored = <<>>
    /\ built = <<>>
    /\ letters = <<>>
    /\ api_resp = [op |-> "none"]

SpecPath == PathInit /\ [][PathNext]_vars

\* the components of a path, and the path a pdf_path names once its "."
\* and ".." components are resolved against BASE_RESUME_DIR
Components(path) == SelectSeq(path_split(path), LAMBDA c : c # <<>>)
NamedPath(path) == abspath(path_join(BASE_RESUME_DIR, LStrip(Strip(path), {"/"})))
InsideBase(full_path) ==
    LET b == Components(BASE_RESUME_DIR)
        f == Components(full_path)
    IN Len(f) >= Len(b) /\ SubSeq(f, 1, Len(b)) = b

ResolveOutcome(r, path) ==
    r.state = "done" =>
        /\ r.out.state = "returned" =>
              /\ r.out.full_path = NamedPath(path)
              /\ InsideBase(r.out.full_path)
              /\ r.out.full_path \in ExistingPaths
              /\ EndsWith(lower(r.out.full_path), Str_dot_pdf)
        /\ ~InsideBase(NamedPath(path)) =>
              /\ r.out.state = "raised"
              /\ r.out.status_code = 400
              /\ ~r.exists_called

\* C29: _safe_resolve_pdf_path returns only a path that, with its ".."
\* components resolved, is BASE_RESUME_DIR or lies under it, exists and ends
\* in .pdf in any letter case; a pdf_path that resolves outside
\* BASE_RESUME_DIR is rejected with 400 before os.path.exists is called.
C29_SafeResolve ==
    /\ ResolveOutcome(resolved, pdf_path)
    /\ ResolveOutcome(main_resolved, pdf_path)

\* a pdf_path naming an existing file outside the directory was rejected
\* with 400, and one naming a resume inside was returned
C29_Witness ==
    /\ resolved.state = "done"
    /\ main_resolved.state = "done"
    /\ NamedPath(pdf_path) \in ExistingPaths
    /\ ~InsideBase(NamedPath(pdf_path))
    /\ startswith(NamedPath(pdf_path), BASE_RESUME_DIR)
    /\ resolved.out.state = "raised"
    /\ resolved.out.status_code = 400

\* a resume inside the directory, spelled .PDF, was returned
C29_Returned ==
    /\ resolved.state = "done"
    /\ resolved.out.state = "returned"
    /\ ~EndsWith(resolved.out.full_path, Str_dot_pdf)

\* ------------------------------------------------------------------------
\* The authenticated endpoints and the collections behind them
\* ------------------------------------------------------------------------

MaxDocs == 2

UserIds == {"u1", "u2"}
NoUser == [exists |-> FALSE]
User(p) == [exists |-> TRUE, prof |-> p]

\* values standing for record contents: a ResumeStructured is named by where
\* it came from, a rendering by what it renders
Structured(source) == <<"structured", source>>
Tailored(p) == <<"tailored", p>>
Letter(p) == <<"letter", p>>
BlankResume == <<"blank">>
Edited(user_id) == <<"edited by", user_id>>
PdfOf(record) == <<"pdf", record>>
TexOf(record) == <<"tex", record>>

\* a detail string: its words, and the exception text interpolated into it
Detail(words, message) == [words |-> words, message |-> message]
NoMessage == <<>>

\* what a client receives. failed names the pipeline stage whose call raised
\* ("none" when no stage did), owner the user_id of the document the request
\* named by id (NoOwner when it named none or the document does not exist).
Response(op, caller, status_code, detail, content, failed, owner) ==
    [op |-> op, caller |-> caller, status_code |-> status_code, detail |-> detail,
     content |-> content, failed |-> failed, owner |-> owner]

\* raise HTTPException(status_code, detail) in a handler
Raised(op, caller, status_code, words, message, failed, owner) ==
    Response(op, caller, status_code, Detail(words, message), None, failed, owner)

\* an exception no handler catches: the server answers 500 with the body
\* "Internal Server Error"
Unhandled(op, caller, failed, owner) ==
    Response(op, caller, 500, Detail(<<"internal", "server", "error">>, NoMessage), None, failed, owner)

Ok(op, caller, content, owner) ==
    Response(op, caller, 200, Detail(<<>>, NoMessage), content, "none", owner)

\* the documents stored in the three collections together, at most MaxDocs
DocsStored == Len(tailored) + Len(built) + Len(letters)

\* Document.get(id): the document, or None (NotFound)
NotFound == [found |-> FALSE]
Get(coll, id) == IF id \in 1..Len(coll) THEN coll[id] ELSE NotFound

NoOwner == "nobody"
OwnerOf(d) == IF d = NotFound THEN NoOwner ELSE d.user_id

\* `not doc or doc.user_id != user_id`
not_owned(d, user_id) == d = NotFound \/ d.user_id # user_id

\* `not user.prof`
not_prof(user) == user.prof = None

\* save_tailored_resume: TailoredResume(...).insert()
\* (variant: the document is inserted twice)
save_tailored_resume_Twice(coll, user_id, tailored_prof) ==
    coll \o << [user_id |-> user_id, tailored_prof |-> tailored_prof],
               [user_id |-> user_id, tailored_prof |-> tailored_prof] >>
save_tailored_resume(coll, user_id, tailored_prof) ==
    Append(coll, [user_id |-> user_id, tailored_prof |-> tailored_prof])

\* what a called stage does: return, or raise
Outcomes == {"returns", "raises"}

\* pdf_path values sent to GET /resume/format
FormatPaths == { <<"a", ".", "p", "d", "f">>, <<".", ".", "/", "a", ".", "p", "d", "f">>,
                 <<"a">>, <<"d">> }

\* GET /resume/format by user_id: resolve, extract, clean, structure, save.
\* extracted: extract_text_from_pdf raises, or the cleaned text is under 50
\* characters, or it is long enough.
format_resume(user_id, path, extracted, structured, saved) ==
    LET r == safe_resolve_pdf_path(path).out IN
    IF r.state = "raised"
    THEN Response("format_resume", user_id, r.status_code, Detail(<<>>, r.detail), None, "none", NoOwner)
    ELSE IF extracted = "raises" THEN Unhandled("format_resume", user_id, "extraction", NoOwner)
    ELSE IF extracted = "short"
    THEN Raised("format_resume", user_id, 422,
                <<"extracted", "text", "too", "short", "pdf", "may", "be", "scanned", "image", "only">>,
                NoMessage, "none", NoOwner)
    ELSE IF structured = "raises"
    THEN Raised("format_resume", user_id, 500, <<"llm", "structuring", "failed">>,
                <<"str(e)">>, "structuring", NoOwner)
    ELSE IF ~users[user_id].exists \/ saved = "raises"
    THEN Raised("format_resume", user_id, 500, <<"failed", "to", "save", "to", "database">>,
                <<"str(e)">>, "none", NoOwner)
    ELSE Ok("format_resume", user_id, Structured(r.full_path), NoOwner)

FormatResume ==
    /\ \E u \in UserIds, path \in FormatPaths, extracted \in {"raises", "short", "long"},
          structured \in Outcomes, saved \in Outcomes :
          LET response == format_resume(u, path, extracted, structured, saved) IN
          /\ api_resp' = response
          /\ users' = IF response.status_code = 200
                      THEN [users EXCEPT ![u] = User(response.content)]
                      ELSE users
    /\ UNCHANGED <<tailored, built, letters, tvars, cvars, pvars, fvars, rvars, colorvars, callvars, authvars, pathvars>>

\* POST /resume/tailor by user_id
tailor_resume(user_id, tailoring, saving) ==
    LET user == users[user_id] IN
    IF ~user.exists
    THEN Raised("tailor_resume", user_id, 404, <<"user", "not", "found">>, NoMessage, "none", NoOwner)
    ELSE IF not_prof(user)
    THEN Raised("tailor_resume", user_id, 400, <<"user", "has", "no", "profile">>, NoMessage, "none", NoOwner)
    ELSE IF tailoring = "raises"
    THEN Raised("tailor_resume", user_id, 500, <<"tailoring", "failed">>, <<"str(e)">>, "tailoring", NoOwner)
    ELSE IF saving = "raises"
    THEN Raised("tailor_resume", user_id, 500, <<"failed", "to", "save">>, <<"str(e)">>, "none", NoOwner)
    ELSE Ok("tailor_resume", user_id, Tailored(user.prof), NoOwner)

TailorResume ==
    /\ DocsStored < MaxDocs
    /\ \E u \in UserIds, tailoring \in Outcomes, saving \in Outcomes :
          LET response == tailor_resume(u, tailoring, saving) IN
          /\ api_resp' = response
          /\ tailored' = IF response.status_code = 200
                         THEN save_tailored_resume(tailored, u, response.content)
                         ELSE tailored
    /\ UNCHANGED <<users, built, letters, tvars, cvars, pvars, fvars, rvars, colorvars, callvars, authvars, pathvars>>

\* The template an export uses: the one template_id names, which may not
\* exist, or the default, which init_db has seeded.
TemplateLookups == {"found", "not found"}

\* GET /resume/export/pdf by user_id for tailored_resume_id
export_resume_pdf(user_id, id, template, rendering) ==
    LET d == Get(tailored, id) IN
    IF not_owned(d, user_id)
    THEN Raised("export_resume_pdf", user_id, 404, <<"tailored", "resume", "not", "found">>,
                NoMessage, "none", OwnerOf(d))
    ELSE IF template = "not found"
    THEN Raised("export_resume_pdf", user_id, 404, <<"resume", "template", "not", "found">>,
                NoMessage, "none", OwnerOf(d))
    ELSE IF rendering = "raises" THEN Unhandled("export_resume_pdf", user_id, "rendering", OwnerOf(d))
    ELSE Ok("export_resume_pdf", user_id, PdfOf(d.tailored_prof), OwnerOf(d))

ExportResumePdf ==
    /\ \E u \in UserIds, id \in 1..(MaxDocs + 1), template \in TemplateLookups, rendering \in Outcomes :
          api_resp' = export_resume_pdf(u, id, template, rendering)
    /\ UNCHANGED <<users, tailored, built, letters, tvars, cvars, pvars, fvars, rvars, colorvars, callvars, authvars, pathvars>>

\* GET /resume/export/current/pdf by user_id
export_current_resume_pdf(user_id, template, rendering) ==
    LET user == users[user_id] IN
    IF ~user.exists
    THEN Raised("export_current_resume_pdf", user_id, 404, <<"user", "not", "found">>, NoMessage, "none", NoOwner)
    ELSE IF not_prof(user)
    THEN Raised("export_current_resume_pdf", user_id, 404,
                <<"user", "has", "no", "resume", "profile", "prof", "yet">>, NoMessage, "none", NoOwner)
    ELSE IF template = "not found"
    THEN Raised("export_current_resume_pdf", user_id, 404, <<"resume", "template", "not", "found">>,
                NoMessage, "none", NoOwner)
    ELSE IF rendering = "raises" THEN Unhandled("export_current_resume_pdf", user_id, "rendering", NoOwner)
    ELSE Ok("export_current_resume_pdf", user_id, PdfOf(user.prof), NoOwner)

ExportCurrentResumePdf ==
    /\ \E u \in UserIds, template \in TemplateLookups, rendering \in Outcomes :
          api_resp' = export_current_resume_pdf(u, template, rendering)
    /\ UNCHANGED <<users, tailored, built, letters, tvars, cvars, pvars, fvars, rvars, colorvars, callvars, authvars, pathvars>>

PipelineNext == FormatResume \/ TailorResume \/ ExportResumePdf \/ ExportCurrentResumePdf

\* registered users, some of whom have no prof yet
UserCollections == [UserIds -> {NoUser, User(None), User(Structured(<<"/", "d", "/", "d", ".", "P", "D", "F">>))}]

\* the server has started; some users have registered
PipelineInit ==
    /\ templates = <<>>
    /\ started = 0
    /\ pc = [p \in Tasks |-> "idle"]
    /\ req = [p \in Tasks |-> NoRequest]
    /\ existing_defaults = [p \in Tasks |-> <<>>]
    /\ doc = [p \in Tasks |-> NotFound]
    /\ resp = NoResponse
    /\ c_pc = "off"
    /\ c_in = [filename_hint |-> Str_resume, margin |-> <<5, 1, 5, 1>>, html_doc |-> "html_a"]
    /\ playwright = "none"
    /\ browser = "none"
    /\ fonts = "pending"
    /\ pdf_bytes = <<>>
    /\ c_out = [kind |-> "running"]
    /\ segs = <<>>
    /\ text = <<>>
    /\ h_res = [state |-> "off"]
    /\ l_res = [state |-> "off"]
    /\ hint = <<>>
    /\ f_pdf = [state |-> "off"]
    /\ f_tex = [state |-> "off"]
    /\ prof = NoProf
    /\ blocks = <<>>
    /\ r_html = [state |-> "off"]
    /\ r_latex = [state |-> "off"]
    /\ r_pdf = [state |-> "off"]
    /\ primary_color = <<>>
    /\ css_res = [state |-> "off"]
    /\ tex_res = [state |-> "off"]
    /\ calls = <<>>
    /\ token = <<>>
    /\ auth_resume = [state |-> "off"]
    /\ auth_cover = [state |-> "off"]
    /\ pdf_path = <<>>
    /\ resolved = [state |-> "off"]
    /\ main_resolved = [state |-> "off"]
    /\ users \in UserCollections
    /\ tailored = <<>>
    /\ built = <<>>
    /\ letters = <<>>
    /\ api_resp = [op |-> "none"]

SpecPipeline == PipelineInit /\ [][PipelineNext]_vars

Stages == {"extraction", "structuring", "tailoring", "rendering"}

\* the words by which a detail string can name a stage
StageWords == [extraction |-> {"extraction", "extract", "extracting", "extracted"},
               structuring |-> {"structuring", "structure"},
               tailoring |-> {"tailoring", "tailor"},
               rendering |-> {"rendering", "render", "pdf", "export"}]

NamesStage(detail, stage) == \E k \in 1..Len(detail.words) : detail.words[k] \in StageWords[stage]

Served == api_resp.op # "none"

\* C25: every request that fails because extraction, structuring, tailoring
\* or rendering raised is answered with an HTTP error whose detail names
\* that stage.
C25_FailureNamesStage ==
    (Served /\ api_resp.failed \in Stages) =>
        /\ api_resp.status_code >= 400
        /\ NamesStage(api_resp.detail, api_resp.failed)

\* the two stages whose call sits in a try block are named
C25_CaughtStagesNamed ==
    (Served /\ api_resp.failed \in {"structuring", "tailoring"}) =>
        /\ api_resp.status_code = 500
        /\ NamesStage(api_resp.detail, api_resp.failed)

\* a stage whose call sits in no try block is answered without a name
C25_UncaughtStagesUnnamed ==
    (Served /\ api_resp.failed \in {"extraction", "rendering"}) =>
        /\ api_resp.status_code = 500
        /\ api_resp.detail.words = <<"internal", "server", "error">>

TailorResumeServed(u) ==
    /\ api_resp'.op = "tailor_resume"
    /\ api_resp'.caller = u

TailorResumeEffect(u) ==
    /\ users' = users
    /\ api_resp'.status_code \in {200, 400, 404, 500}
    /\ ~users[u].exists => api_resp'.status_code = 404
    /\ (users[u].exists /\ users[u].prof = None) => api_resp'.status_code = 400
    /\ api_resp'.failed = "tailoring" => api_resp'.status_code = 500
    /\ api_resp'.status_code # 200 => tailored' = tailored
    /\ api_resp'.status_code = 200 =>
          /\ Len(tailored') = Len(tailored) + 1
          /\ SubSeq(tailored', 1, Len(tailored)) = tailored
          /\ tailored'[Len(tailored')].user_id = u
          /\ tailored'[Len(tailored')].tailored_prof = Tailored(users[u].prof)
          /\ api_resp'.content = Tailored(users[u].prof)

\* C27: a POST /resume/tailor inserts exactly one TailoredResume, owned by
\* the caller and holding what tailor_resume_for_job returned, when it
\* answers 200; it answers 404 for a user that does not exist, 400 for a
\* user without prof and 500 when the tailoring call raises, and inserts
\* nothing then; in every outcome the stored users are left as they were.
C27_TailorInsertsOnce ==
    [][\A u \in UserIds : TailorResumeServed(u) => TailorResumeEffect(u)]_vars

\* a tailored resume has been inserted for the caller
C27_Witness ==
    /\ api_resp.op = "tailor_resume"
    /\ api_resp.status_code = 200
    /\ Len(tailored) = 1
    /\ tailored[1].user_id = api_resp.caller
    /\ users[api_resp.caller].prof # None

\* GET /resume/tailored-resumes/{id} by user_id
get_tailored_resume(user_id, id) ==
    LET d == Get(tailored, id) IN
    IF not_owned(d, user_id)
    THEN Raised("get_tailored_resume", user_id, 404, <<"tailored", "resume", "not", "found">>,
                NoMessage, "none", OwnerOf(d))
    ELSE Ok("get_tailored_resume", user_id, d.tailored_prof, OwnerOf(d))

GetTailoredResume ==
    /\ \E u \in UserIds, id \in 1..(MaxDocs + 1) : api_resp' = get_tailored_resume(u, id)
    /\ UNCHANGED <<users, tailored, built, letters, tvars, cvars, pvars, fvars, rvars, colorvars, callvars, authvars, pathvars>>

\* GET /resume/export/tex for tailored_resume_id: the handler has no user_id
\* parameter; generate_latex_from_tailored_resume(tailored_resume_id) raises
\* ValueError only for a document that does not exist. user_id is the
\* subject the router's require_auth dependency accepted.
export_resume_tex(user_id, id) ==
    LET d == Get(tailored, id) IN
    IF d = NotFound
    THEN Raised("export_resume_tex", user_id, 404, <<"tailoredresume", "not", "found">>,
                NoMessage, "none", OwnerOf(d))
    ELSE Ok("export_resume_tex", user_id, TexOf(d.tailored_prof), OwnerOf(d))

ExportResumeTex ==
    /\ \E u \in UserIds, id \in 1..(MaxDocs + 1) : api_resp' = export_resume_tex(u, id)
    /\ UNCHANGED <<users, tailored, built, letters, tvars, cvars, pvars, fvars, rvars, colorvars, callvars, authvars, pathvars>>

\* POST /resume/built-resumes by user_id with source "blank", "current" or
\* anything else
create_built_resume(user_id, source) ==
    IF source \notin {"blank", "current"}
    THEN Raised("create_built_resume", user_id, 422, <<"invalid", "source">>, NoMessage, "none", NoOwner)
    ELSE IF source = "current" /\ ~users[user_id].exists
    THEN Raised("create_built_resume", user_id, 404, <<"user", "not", "found">>, NoMessage, "none", NoOwner)
    ELSE IF source = "current" /\ not_prof(users[user_id])
    THEN Raised("create_built_resume", user_id, 404,
                <<"user", "has", "no", "resume", "profile", "prof", "yet">>, NoMessage, "none", NoOwner)
    ELSE Ok("create_built_resume", user_id,
            IF source = "current" THEN users[user_id].prof ELSE BlankResume, NoOwner)

CreateBuiltResume ==
    /\ DocsStored < MaxDocs
    /\ \E u \in UserIds, source \in {"blank", "current", "other"} :
          LET response == create_built_resume(u, source) IN
          /\ api_resp' = response
          /\ built' = IF response.status_code = 200
                      THEN Append(built, [user_id |-> u, resume |-> response.content])
                      ELSE built
    /\ UNCHANGED <<users, tailored, letters, tvars, cvars, pvars, fvars, rvars, colorvars, callvars, authvars, pathvars>>

\* GET /resume/built-resumes/{id} by user_id
get_built_resume(user_id, id) ==
    LET d == Get(built, id) IN
    IF not_owned(d, user_id)
    THEN Raised("get_built_resume", user_id, 404, <<"built", "resume", "not", "found">>,
                NoMessage, "none", OwnerOf(d))
    ELSE Ok("get_built_resume", user_id, d.resume, OwnerOf(d))

GetBuiltResume ==
    /\ \E u \in UserIds, id \in 1..(MaxDocs + 1) : api_resp' = get_built_resume(u, id)
    /\ UNCHANGED <<users, tailored, built, letters, tvars, cvars, pvars, fvars, rvars, colorvars, callvars, authvars, pathvars>>

\* PUT /resume/built-resumes/{id} by user_id with a new resume
update_built_resume(user_id, id, resume) ==
    LET d == Get(built, id) IN
    IF not_owned(d, user_id)
    THEN Raised("update_built_resume", user_id, 404, <<"built", "resume", "not", "found">>,
                NoMessage, "none", OwnerOf(d))
    ELSE Ok("update_built_resume", user_id, resume, OwnerOf(d))

UpdateBuiltResume ==
    /\ \E u \in UserIds, id \in 1..(MaxDocs + 1) :
          LET response == update_built_resume(u, id, Edited(u)) IN
          /\ api_resp' = response
          /\ built' = IF response.status_code = 200
                      THEN [built EXCEPT ![id].resume = response.content]
                      ELSE built
    /\ UNCHANGED <<users, tailored, letters, tvars, cvars, pvars, fvars, rvars, colorvars, callvars, authvars, pathvars>>

\* GET /resume/built-resumes/{id}/export/pdf by user_id
export_built_resume_pdf(user_id, id, template, rendering) ==
    LET d == Get(built, id) IN
    IF not_owned(d, user_id)
    THEN Raised("export_built_resume_pdf", user_id, 404, <<"built", "resume", "not", "found">>,
                NoMessage, "none", OwnerOf(d))
    ELSE IF template = "not found"
    THEN Raised("export_built_resume_pdf", user_id, 404, <<"resume", "template", "not", "found">>,
                NoMessage, "none", OwnerOf(d))
    ELSE IF rendering = "raises" THEN Unhandled("export_built_resume_pdf", user_id, "rendering", OwnerOf(d))
    ELSE Ok("export_built_resume_pdf", user_id, PdfOf(d.resume), OwnerOf(d))

ExportBuiltResumePdf ==
    /\ \E u \in UserIds, id \in 1..(MaxDocs + 1), template \in TemplateLookups, rendering \in Outcomes :
          api_resp' = export_built_resume_pdf(u, id, template, rendering)
    /\ UNCHANGED <<users, tailored, built, letters, tvars, cvars, pvars, fvars, rvars, colorvars, callvars, authvars, pathvars>>

\* GET /resume/built-resumes/{id}/export/tex by user_id
export_built_resume_tex(user_id, id, template) ==
    LET d == Get(built, id) IN
    IF not_owned(d, user_id)
    THEN Raised("export_built_resume_tex", user_id, 404, <<"built", "resume", "not", "found">>,
                NoMessage, "none", OwnerOf(d))
    ELSE IF template = "not found"
    THEN Raised("export_built_resume_tex", user_id, 404, <<"resume", "template", "not", "found">>,
                NoMessage, "none", OwnerOf(d))
    ELSE Ok("export_built_resume_tex", user_id, TexOf(d.resume), OwnerOf(d))

ExportBuiltResumeTex ==
    /\ \E u \in UserIds, id \in 1..(MaxDocs + 1), template \in TemplateLookups :
          api_resp' = export_built_resume_tex(u, id, template)
    /\ UNCHANGED <<users, tailored, built, letters, tvars, cvars, pvars, fvars, rvars, colorvars, callvars, authvars, pathvars>>

\* POST /cover-letter/tailor by user_id
tailor_cover_letter(user_id, tailoring, saving) ==
    LET user == users[user_id] IN
    IF ~user.exists
    THEN Raised("tailor_cover_letter", user_id, 404, <<"user", "not", "found">>, NoMessage, "none", NoOwner)
    ELSE IF not_prof(user)
    THEN Raised("tailor_cover_letter", user_id, 400, <<"user", "has", "no", "profile">>, NoMessage, "none", NoOwner)
    ELSE IF tailoring = "raises"
    THEN Raised("tailor_cover_letter", user_id, 500, <<"cover", "letter", "generation", "failed">>,
                <<"str(e)">>, "none", NoOwner)
    ELSE IF saving = "raises"
    THEN Raised("tailor_cover_letter", user_id, 500, <<"failed", "to", "save">>, <<"str(e)">>, "none", NoOwner)
    ELSE Ok("tailor_cover_letter", user_id, Letter(user.prof), NoOwner)

TailorCoverLetter ==
    /\ DocsStored < MaxDocs
    /\ \E u \in UserIds, tailoring \in Outcomes, saving \in Outcomes :
          LET response == tailor_cover_letter(u, tailoring, saving) IN
          /\ api_resp' = response
          /\ letters' = IF response.status_code = 200
                        THEN Append(letters, [user_id |-> u, tailored_content |-> response.content])
                        ELSE letters
    /\ UNCHANGED <<users, tailored, built, tvars, cvars, pvars, fvars, rvars, colorvars, callvars, authvars, pathvars>>

\* GET /cover-letter/tailored-letters/{id} by user_id
get_cover_letter(user_id, id) ==
    LET d == Get(letters, id) IN
    IF not_owned(d, user_id)
    THEN Raised("get_cover_letter", user_id, 404, <<"cover", "letter", "not", "found">>,
                NoMessage, "none", OwnerOf(d))
    ELSE Ok("get_cover_letter", user_id, d.tailored_content, OwnerOf(d))

GetCoverLetter ==
    /\ \E u \in UserIds, id \in 1..(MaxDocs + 1) : api_resp' = get_cover_letter(u, id)
    /\ UNCHANGED <<users, tailored, built, letters, tvars, cvars, pvars, fvars, rvars, colorvars, callvars, authvars, pathvars>>

DocsNext ==
    \/ TailorResume
    \/ CreateBuiltResume
    \/ TailorCoverLetter
    \/ GetTailoredResume
    \/ ExportResumePdf
    \/ ExportResumeTex
    \/ GetBuiltResume
    \/ UpdateBuiltResume
    \/ ExportBuiltResumePdf
    \/ ExportBuiltResumeTex
    \/ GetCoverLetter

\* one user with a resume, and another who may have none or no account
DocsUsers == { uc \in UserCollections : uc["u1"].exists /\ ~not_prof(uc["u1"]) }

\* the server has started with empty document collections
DocsInit ==
    /\ templates = <<>>
    /\ started = 0
    /\ pc = [p \in Tasks |-> "idle"]
    /\ req = [p \in Tasks |-> NoRequest]
    /\ existing_defaults = [p \in Tasks |-> <<>>]
    /\ doc = [p \in Tasks |-> NoDoc]
    /\ resp = NoResponse
    /\ c_pc = "off"
    /\ c_in = [filename_hint |-> Str_resume, margin |-> <<5, 1, 5, 1>>, html_doc |-> "html_a"]
    /\ playwright = "none"
    /\ browser = "none"
    /\ fonts = "pending"
    /\ pdf_bytes = <<>>
    /\ c_out = [kind |-> "running"]
    /\ segs = <<>>
    /\ text = <<>>
    /\ h_res = [state |-> "off"]
    /\ l_res = [state |-> "off"]
    /\ hint = <<>>
    /\ f_pdf = [state |-> "off"]
    /\ f_tex = [state |-> "off"]
    /\ prof = NoProf
    /\ blocks = <<>>
    /\ r_html = [state |-> "off"]
    /\ r_latex = [state |-> "off"]
    /\ r_pdf = [state |-> "off"]
    /\ primary_color = <<>>
    /\ css_res = [state |-> "off"]
    /\ tex_res = [state |-> "off"]
    /\ calls = <<>>
    /\ token = <<>>
    /\ auth_resume = [state |-> "off"]
    /\ auth_cover = [state |-> "off"]
    /\ pdf_path = <<>>
    /\ resolved = [state |-> "off"]
    /\ main_resolved = [state |-> "off"]
    /\ users \in DocsUsers
    /\ tailored = <<>>
    /\ built = <<>>
    /\ letters = <<>>
    /\ api_resp = [op |-> "none"]

SpecDocs == DocsInit /\ [][DocsNext]_vars

\* the endpoints that return, export or update one document named by id
ByIdOps == {"get_tailored_resume", "export_resume_pdf", "export_resume_tex",
            "get_built_resume", "update_built_resume", "export_built_resume_pdf",
            "export_built_resume_tex", "get_cover_letter"}

\* the request named a document whose user_id is not the caller (or none)
NotOwners == Served /\ api_resp.op \in ByIdOps /\ api_resp.owner # api_resp.caller

Refused == api_resp.status_code = 404 /\ api_resp.content = None

\* a built resume changes only in a step that serves its owner
OwnerWrites ==
    \A id \in 1..Len(built) :
        built'[id] # built[id] =>
            /\ api_resp'.op = "update_built_resume"
            /\ api_resp'.caller = built[id].user_id

\* C26: every endpoint that returns, exports or updates a tailored resume, a
\* built resume or a tailored cover letter by id answers 404 without content
\* unless the document's user_id is the authenticated subject, and no
\* request changes another user's document.
C26_OwnerOnly == [](NotOwners => Refused) /\ [][OwnerWrites]_vars

\* all of them but GET /resume/export/tex do
C26_OwnerOnlyButExportTex ==
    [](NotOwners /\ api_resp.op # "export_resume_tex" => Refused) /\ [][OwnerWrites]_vars

\* GET /resume/export/tex handed one user's tailored resume to another
C26_ExportTexDiscloses ==
    /\ NotOwners
    /\ api_resp.op = "export_resume_tex"
    /\ api_resp.owner \in UserIds
    /\ api_resp.status_code = 200
    /\ api_resp.content # None

====
